---- MODULE Spec2Model ----
(***************************************************************************)
(* Multi-exchange WebSocket fan-in engine of crypto-crawler-rs.            *)
(*                                                                         *)
(* One supervisor (WSClientInternal) per exchange: its subscription        *)
(* ledger (active_subscriptions), its read loop (run), its reconnection    *)
(* cycle (reconnect), its heartbeat task (start_ping_task) and close();    *)
(* above it the router (CryptoWsClient) with its own connection_states     *)
(* map and the merged next_message.                                        *)
(*                                                                         *)
(* Command strings are modelled as sequences of tokens.  The only string   *)
(* operations the supervisor applies to a command are                      *)
(* contains("subscribe"), contains("unsubscribe") and                      *)
(* replace("unsubscribe", "subscribe"); the tokenisation splits every      *)
(* command at the boundaries of those words, the word "unsubscribe" being  *)
(* the two tokens "un" "subscribe", so that the three operations are       *)
(* computed on tokens exactly as the code computes them on characters.     *)
(***************************************************************************)
EXTENDS Naturals, Sequences, FiniteSets, TLC

\* ---------------------------------------------------------------- bounds

\* longest ledger (active_subscriptions) the caller is allowed to build
MaxLedger == 2

\* total number of reconnection attempts (metric reconnection_attempts)
\* after which no new reconnection cycle is started
MaxAttempts == 6

\* largest value of an unanswered-ping counter
MaxUnanswered == 3

\* longest per-exchange channel between a supervisor and the router
MaxQueue == 2

\* number of consecutive next_message calls an exchange with a pending
\* message may be passed over before it counts as starved
StarveLimit == 3

\* number of text frames one supervisor forwards to the router
MaxArrivals == 3

\* consecutive undecodable binary frames one supervisor is sent
MaxDecodeErrors == 3

\* keep-alive requests in a row that are answered with an error
MaxKeepAliveFailures == 3

\* longest topic list given to one call of translate_to_commands
MaxTopics == 205

\* ------------------------------------------------------ program constants

MAX_RECONNECT_ATTEMPTS == 5

PingThreshold == 2

MAX_CONNECTION_ATTEMPTS == 5

WS_FRAME_SIZE == 4096

\* ------------------------------------------------------------- exchanges

\* EXCHANGE_NAME of the four command formats
Exchanges == {"binance", "bybit", "mexc", "bingx"}

\* exchanges the router has a working WsClientWrapper arm for
RouterExchanges == {"mexc", "bingx"}

\* canonical symbols, as token sequences
Symbols == {<<"BTC", "_", "USDT">>, <<"ETH", "_", "USDT">>, <<"ETH", "_", "BTC">>}

\* timestamps chrono::Utc::now().timestamp_millis() can give (BingX ids)
Timestamps == {"1700000000001", "1700000000002"}

\* what the translator of an exchange reads from the clock: only BingX
\* puts a timestamp into its commands
Clock(e) == IF e = "bingx" THEN Timestamps ELSE {"unread"}

Range(s) == {s[i] : i \in 1..Len(s)}

\* str.replace(from, to) on single-token patterns
ReplaceToken(s, from, to) == [i \in 1..Len(s) |-> IF s[i] = from THEN to ELSE s[i]]

RemoveToken(s, tok) == SelectSeq(s, LAMBDA x : x # tok)

\* symbol.to_lowercase(), token by token
LowerToken(t) ==
    CASE t = "BTC" -> "btc"
      [] t = "ETH" -> "eth"
      [] t = "USDT" -> "usdt"
      [] OTHER -> t

ToLowercase(s) == [i \in 1..Len(s) |-> LowerToken(s[i])]

\* ---------------------------------------------------- command translators

\* BinanceCommandTranslator::topics_to_command, one (topic, symbol) pair
BinanceTopicsToCommand(symbol, subscribe) ==
    <<"{\"id\":9527,\"method\":\"">>
    \o (IF subscribe THEN <<"SUBSCRIBE">> ELSE <<"UN", "SUBSCRIBE">>)
    \o <<"\",\"params\":[\"">> \o ToLowercase(symbol) \o <<"@aggTrade", "\"]}">>

\* bybit::utils::topics_to_command, one (channel, symbol) pair
BybitTopicsToCommand(symbol, subscribe) ==
    <<"{\"op\":\"">>
    \o (IF subscribe THEN <<"subscribe">> ELSE <<"un", "subscribe">>)
    \o <<"\",\"args\":[\"", "publicTrade.">> \o symbol \o <<"\"]}">>

\* MexcCommandTranslator::v3_subscription_command("deals", symbol)
v3_subscription_command(symbol) ==
    <<"{\"method\":\"", "SUBSCRIPTION", "\",\"params\":[\"", "spot@public.deals.v3.api@">>
    \o RemoveToken(symbol, "_") \o <<"\"]}">>

\* MexcCommandTranslator::v3_unsubscription_command("deals", symbol)
v3_unsubscription_command(symbol) ==
    <<"{\"method\":\"", "UN", "SUBSCRIPTION", "\",\"params\":[\"", "spot@public.deals.v3.api@">>
    \o RemoveToken(symbol, "_") \o <<"\"]}">>

\* BingxCommandTranslator::subscription_command("trade", symbol)
BingxSubscriptionCommand(symbol, ts) ==
    <<"{\"id\":\"", ts, "\",\"dataType\":\"">>
    \o ReplaceToken(symbol, "_", "-") \o <<"@trade", "\"}">>

\* BingxCommandTranslator::unsubscription_command("trade", symbol)
BingxUnsubscriptionCommand(symbol, ts) ==
    <<"{\"id\":\"", ts, "\",\"dataType\":\"">>
    \o ReplaceToken(symbol, "_", "-") \o <<"@trade", "\",\"", "un", "subscribe", "\":true}">>

\* the command WSClient::subscribe_trade(&[symbol]) hands to send()
SubscribeCommand(e, symbol, ts) ==
    CASE e = "binance" -> BinanceTopicsToCommand(symbol, TRUE)
      [] e = "bybit" -> BybitTopicsToCommand(symbol, TRUE)
      [] e = "mexc" -> v3_subscription_command(symbol)
      [] OTHER -> BingxSubscriptionCommand(symbol, ts)

\* the command WSClient::unsubscribe(&[(channel, symbol)]) hands to send()
UnsubscribeCommand(e, symbol, ts) ==
    CASE e = "binance" -> BinanceTopicsToCommand(symbol, FALSE)
      [] e = "bybit" -> BybitTopicsToCommand(symbol, FALSE)
      [] e = "mexc" -> v3_unsubscription_command(symbol)
      [] OTHER -> BingxUnsubscriptionCommand(symbol, ts)

\* ------------------------------------------------ the ledger in send()

\* command.contains("subscribe")
ContainsSubscribe(command) == \E i \in 1..Len(command) : command[i] = "subscribe"

\* command.contains("unsubscribe")
ContainsUnsubscribe(command) ==
    \E i \in 1..Len(command) :
        /\ i < Len(command)
        /\ command[i] = "un"
        /\ command[i + 1] = "subscribe"

\* command.replace("unsubscribe", "subscribe")
RECURSIVE ReplaceUnsubscribe(_)
ReplaceUnsubscribe(command) ==
    IF command = <<>> THEN <<>>
    ELSE IF Len(command) >= 2 /\ command[1] = "un" /\ command[2] = "subscribe"
         THEN <<"subscribe">> \o ReplaceUnsubscribe(SubSeq(command, 3, Len(command)))
         ELSE <<command[1]>> \o ReplaceUnsubscribe(Tail(command))

\* send() with an unsubscribe branch that removes nothing
LedgerAfterKeeping(subscriptions, command) ==
    IF ContainsSubscribe(command) /\ ~ContainsUnsubscribe(command)
    THEN Append(subscriptions, command)
    ELSE subscriptions

\* the first block of WSClientInternal::send for one command
LedgerAfter(subscriptions, command) ==
    IF ContainsSubscribe(command) /\ ~ContainsUnsubscribe(command)
    THEN Append(subscriptions, command)
    ELSE IF ContainsUnsubscribe(command)
         THEN SelectSeq(subscriptions, LAMBDA s : s # ReplaceUnsubscribe(command))
         ELSE subscriptions

\* ------------------------------------------------------------------ state

VARIABLES
    \* WSClientInternal, one per exchange
    connection_state,        \* Mutex<ConnectionState>
    active_subscriptions,    \* Mutex<Vec<String>>, the ledger
    reconnect_in_progress,   \* Arc<AtomicBool>
    reconnection_attempts,   \* metrics.reconnection_attempts
    metrics,                 \* the other counters of ConnectionMetrics
    \* the heartbeat task of start_ping_task
    ping_running,            \* the spawned task is alive
    ping_arc,                \* which Arc<AtomicIsize> the task was given
    num_unanswered_ping,     \* the counters: run's Arc and reconnect's Arc
    \* the connection behind command_tx / message_rx
    conn_open,               \* the connection task is alive
    last_close,              \* what ended the connection
    replayed,                \* commands of the replay loop the connection accepted
    \* the task executing run()
    run_pc,
    attempt,                 \* loop variable of reconnect()
    subscriptions,           \* the clone of the ledger taken by reconnect()
    replay_idx,              \* position of the replay loop in subscriptions
    \* MessageChannel between run() and the router
    message_channel,
    \* CryptoWsClient
    connection_states,
    is_running,
    hash_order,              \* iteration order of the connection_states map
    last_message,            \* what the last next_message call returned
    \* observations
    intended,                \* symbols subscribed and not unsubscribed since, in order
    intent_at_reconnect,     \* intended when reconnect() cloned the ledger
    added_reconnecting,      \* symbols subscribed during the current cycle
    closed,                  \* close() has been called
    pong_since_ping,         \* a pong arrived after the last ping was sent
    conn_delivered,          \* a data message of this connection reached tx
    starved,                 \* consecutive next_message calls that passed over
    arrived,                 \* text frames run() has forwarded to tx so far
    returned,                \* what the router's callers have been given
    lost,                    \* data messages a caller took and dropped
    removed,                 \* remove_exchange has returned for the exchange
    receiver_dropped,        \* the receiver of the supervisor's tx is dropped
    decode_errors,           \* binary frames in a row that run() could not decode
    \* calls followed on their own
    construct,               \* a call of WSClientInternal::connect
    raw_message,             \* a raw message given to parse_message_static
    outcome,                 \* what parse_message_static returned for it
    ledger_case,             \* a subscribe and an unsubscribe of one symbol
    user_stream,             \* the listen key of a MEXC user data stream
    request                  \* a call of a subscribe method or a translator

vars == <<connection_state, active_subscriptions, reconnect_in_progress,
          reconnection_attempts, metrics, ping_running, ping_arc,
          num_unanswered_ping, conn_open, last_close, replayed, run_pc, attempt,
          subscriptions, replay_idx, message_channel, connection_states,
          is_running, hash_order, last_message, intended, intent_at_reconnect,
          added_reconnecting, closed, pong_since_ping, conn_delivered, starved,
          arrived, returned, lost, removed, receiver_dropped, decode_errors, construct, raw_message, outcome,
          ledger_case, user_stream, request>>

metricVars == <<reconnection_attempts, metrics>>

\* ConnectionMetrics::default()
NoConnections ==
    [total_connections |-> 0, successful_connections |-> 0,
     failed_connections |-> 0, ping_failures |-> 0]

record_connection_success(m) == [m EXCEPT !.successful_connections = @ + 1]

record_connection_failure(m) == [m EXCEPT !.failed_connections = @ + 1]

pingVars == <<ping_running, ping_arc, num_unanswered_ping, pong_since_ping>>

connVars == <<conn_open, last_close, replayed>>

runVars == <<run_pc, attempt, subscriptions, replay_idx>>

routerVars == <<connection_states, is_running, hash_order, last_message, starved>>

intentVars == <<intended, intent_at_reconnect, added_reconnecting>>

deliveryVars == <<arrived, returned, lost>>

callVars == <<construct, raw_message, outcome, ledger_case, user_stream, request>>

newVars == <<deliveryVars, removed, receiver_dropped, decode_errors, callVars>>

\* the supervisors that exist
Sup == DOMAIN connection_state

FailedMax == "Failed(Max reconnection attempts exceeded)"

FailedReconnection == "Failed(Reconnection failed)"

IsFailed(state) == state \in {FailedMax, FailedReconnection}

\* raw text messages a supervisor forwards to the router
Payloads ==
    {[cls |-> "data", channel |-> "Trades"],
     [cls |-> "data", channel |-> "PrivateDeals"],
     [cls |-> "service", channel |-> "none"]}

\* ChannelType::PrivateDeals | ChannelType::AccountBalance
PrivateChannels == {"PrivateDeals", "AccountBalance"}

NoMessage == <<>>

\* all orders in which a HashMap with these keys can iterate
Orders(S) == {o \in [1..Cardinality(S) -> S] : Range(o) = S}

\* state after the exchanges in S have been constructed
\* (WSClientInternal::connect returned) and added to the router
InitWith(S) ==
    /\ connection_state = [e \in S |-> "Connected"]
    /\ active_subscriptions = [e \in S |-> <<>>]
    /\ reconnect_in_progress = [e \in S |-> FALSE]
    /\ reconnection_attempts = [e \in S |-> 0]
    /\ metrics = [e \in S |-> NoConnections]
    /\ ping_running = [e \in S |-> FALSE]
    /\ ping_arc = [e \in S |-> "run"]
    /\ num_unanswered_ping = [e \in S |-> [run |-> 0, fresh |-> 0]]
    /\ conn_open = [e \in S |-> TRUE]
    /\ last_close = [e \in S |-> "none"]
    /\ replayed = [e \in S |-> <<>>]
    /\ run_pc = [e \in S |-> "idle"]
    /\ attempt = [e \in S |-> 0]
    /\ subscriptions = [e \in S |-> <<>>]
    /\ replay_idx = [e \in S |-> 1]
    /\ message_channel = [e \in S |-> <<>>]
    /\ connection_states =
           [e \in S |-> IF e \in RouterExchanges THEN "Disconnected" ELSE "absent"]
    /\ is_running = [e \in S |-> FALSE]
    /\ hash_order \in Orders(S \cap RouterExchanges)
    /\ last_message = NoMessage
    /\ intended = [e \in S |-> <<>>]
    /\ intent_at_reconnect = [e \in S |-> <<>>]
    /\ added_reconnecting = [e \in S |-> {}]
    /\ closed = [e \in S |-> FALSE]
    /\ pong_since_ping = [e \in S |-> FALSE]
    /\ conn_delivered = [e \in S |-> FALSE]
    /\ starved = [e \in S |-> 0]
    /\ arrived = [e \in S |-> 0]
    /\ returned = [e \in S |-> <<>>]
    /\ lost = [e \in S |-> {}]
    /\ removed = [e \in S |-> FALSE]
    /\ receiver_dropped = [e \in S |-> FALSE]
    /\ decode_errors = [e \in S |-> 0]

\* no call is being followed on its own
NoCall == [step |-> "none"]

NoCalls ==
    /\ construct = NoCall
    /\ raw_message = NoCall
    /\ outcome = NoCall
    /\ ledger_case = NoCall
    /\ user_stream = NoCall
    /\ request = NoCall

\* one supervisor, of any exchange
Init == \E e \in Exchanges : InitWith({e}) /\ NoCalls

\* the router with both of its exchanges
InitRouter == InitWith(RouterExchanges) /\ NoCalls

\* ------------------------------------------------------- caller: send()

\* WSClient::subscribe_trade(&[symbol]) -> WSClientInternal::send
Subscribe(e, symbol, ts) ==
    LET command == SubscribeCommand(e, symbol, ts) IN
    /\ Len(active_subscriptions[e]) < MaxLedger
    /\ active_subscriptions' =
           [active_subscriptions EXCEPT ![e] = LedgerAfter(@, command)]
    /\ intended' = [intended EXCEPT
                       ![e] = IF symbol \in Range(@) THEN @ ELSE Append(@, symbol)]
    /\ added_reconnecting' =
           [added_reconnecting EXCEPT
               ![e] = IF run_pc[e] = "reconnect_attempt" THEN @ \cup {symbol} ELSE @]
    /\ UNCHANGED <<newVars, connection_state, reconnect_in_progress, metricVars, pingVars,
                   connVars, runVars, message_channel, routerVars,
                   intent_at_reconnect, closed, conn_delivered>>

\* WSClient::unsubscribe(&[("trade", symbol)]) -> WSClientInternal::send
Unsubscribe(e, symbol, ts) ==
    LET command == UnsubscribeCommand(e, symbol, ts) IN
    /\ active_subscriptions' =
           [active_subscriptions EXCEPT ![e] = LedgerAfter(@, command)]
    /\ intended' = [intended EXCEPT ![e] = SelectSeq(@, LAMBDA s : s # symbol)]
    /\ added_reconnecting' = [added_reconnecting EXCEPT ![e] = @ \ {symbol}]
    /\ UNCHANGED <<newVars, connection_state, reconnect_in_progress, metricVars, pingVars,
                   connVars, runVars, message_channel, routerVars,
                   intent_at_reconnect, closed, conn_delivered>>

\* ------------------------------------------------------ caller: close()

\* WSClientInternal::close: Disconnected, the ping task is told to stop,
\* Close(None) goes to the command queue and ends the connection
DirectClose(e) ==
    /\ e \notin RouterExchanges
    /\ connection_state' = [connection_state EXCEPT ![e] = "Disconnected"]
    /\ ping_running' = [ping_running EXCEPT ![e] = FALSE]
    /\ conn_open' = [conn_open EXCEPT ![e] = FALSE]
    /\ last_close' = [last_close EXCEPT ![e] = IF conn_open[e] THEN "close" ELSE @]
    /\ closed' = [closed EXCEPT ![e] = TRUE]
    /\ UNCHANGED <<newVars, active_subscriptions, reconnect_in_progress, metricVars,
                   ping_arc, num_unanswered_ping, pong_since_ping, replayed, runVars,
                   message_channel, routerVars, intentVars, conn_delivered>>

\* CryptoWsClient::disconnect_all: WsClientWrapper::disconnect for every
\* client (close() if is_running), then the router's state
DisconnectAll ==
    LET Closing(e) == e \in RouterExchanges /\ is_running[e] IN
    /\ \E e \in Sup : e \in RouterExchanges
    /\ connection_state' =
           [e \in Sup |-> IF Closing(e) THEN "Disconnected" ELSE connection_state[e]]
    /\ ping_running' = [e \in Sup |-> IF Closing(e) THEN FALSE ELSE ping_running[e]]
    /\ conn_open' = [e \in Sup |-> IF Closing(e) THEN FALSE ELSE conn_open[e]]
    /\ last_close' =
           [e \in Sup |-> IF Closing(e) /\ conn_open[e] THEN "close" ELSE last_close[e]]
    /\ closed' = [e \in Sup |-> IF Closing(e) THEN TRUE ELSE closed[e]]
    /\ is_running' = [e \in Sup |-> IF e \in RouterExchanges THEN FALSE ELSE is_running[e]]
    /\ connection_states' =
           [e \in Sup |-> IF e \in RouterExchanges THEN "Disconnected"
                          ELSE connection_states[e]]
    /\ UNCHANGED <<newVars, active_subscriptions, reconnect_in_progress, metricVars,
                   ping_arc, num_unanswered_ping, pong_since_ping, replayed, runVars,
                   message_channel, hash_order, last_message, starved, intentVars,
                   conn_delivered>>

\* CryptoWsClient::remove_exchange: the client leaves the clients map,
\* WsClientWrapper::disconnect calls close() if is_running, and the entry
\* of connection_states is removed; the spawned run() task is not awaited
RemoveExchange(e) ==
    /\ e \in RouterExchanges
    /\ ~removed[e]
    /\ removed' = [removed EXCEPT ![e] = TRUE]
    /\ receiver_dropped' = [receiver_dropped EXCEPT ![e] = TRUE]
    /\ connection_state' =
           [connection_state EXCEPT ![e] = IF is_running[e] THEN "Disconnected" ELSE @]
    /\ ping_running' = [ping_running EXCEPT ![e] = IF is_running[e] THEN FALSE ELSE @]
    /\ conn_open' = [conn_open EXCEPT ![e] = IF is_running[e] THEN FALSE ELSE @]
    /\ last_close' =
           [last_close EXCEPT ![e] = IF is_running[e] /\ conn_open[e] THEN "close" ELSE @]
    /\ closed' = [closed EXCEPT ![e] = IF is_running[e] THEN TRUE ELSE @]
    /\ is_running' = [is_running EXCEPT ![e] = FALSE]
    /\ connection_states' = [connection_states EXCEPT ![e] = "absent"]
    /\ hash_order' = SelectSeq(hash_order, LAMBDA x : x # e)
    /\ UNCHANGED <<deliveryVars, decode_errors, callVars, active_subscriptions,
                   reconnect_in_progress, metricVars, ping_arc, num_unanswered_ping,
                   pong_since_ping, replayed, runVars, message_channel, last_message,
                   starved, intentVars, conn_delivered>>

\* CryptoWsClient::add_exchange for an exchange that is installed:
\* clients.insert drops the wrapper it replaces, and with it the receiver
\* of the MessageChannel; disconnect is not called.  The supervisor of the
\* replaced wrapper lives on in the spawned run() task, if there is one;
\* without a task the last Arc of the client goes and the connection with
\* it.  The state and the is_running flag are those of the new wrapper.
AddExchangeAgain(e) ==
    /\ e \in RouterExchanges
    /\ ~removed[e]
    /\ ~receiver_dropped[e]
    /\ receiver_dropped' = [receiver_dropped EXCEPT ![e] = TRUE]
    /\ connection_states' = [connection_states EXCEPT ![e] = "Disconnected"]
    /\ is_running' = [is_running EXCEPT ![e] = FALSE]
    /\ conn_open' = [conn_open EXCEPT ![e] = IF run_pc[e] = "idle" THEN FALSE ELSE @]
    /\ last_close' = [last_close EXCEPT
                         ![e] = IF run_pc[e] = "idle" /\ conn_open[e] THEN "dropped" ELSE @]
    /\ UNCHANGED <<deliveryVars, removed, decode_errors, callVars, connection_state,
                   active_subscriptions, reconnect_in_progress, metricVars, pingVars,
                   replayed, runVars, message_channel, hash_order, last_message,
                   starved, intentVars, closed, conn_delivered>>

\* a caller that uses the client without the router drops the receiver of
\* the channel it gave to the constructor
DropReceiver(e) ==
    /\ e \notin RouterExchanges
    /\ ~receiver_dropped[e]
    /\ receiver_dropped' = [receiver_dropped EXCEPT ![e] = TRUE]
    /\ UNCHANGED <<deliveryVars, removed, decode_errors, callVars, connection_state,
                   active_subscriptions, reconnect_in_progress, metricVars, pingVars,
                   connVars, runVars, message_channel, routerVars, intentVars, closed,
                   conn_delivered>>

\* ------------------------------------------------- caller: starting run()

\* CryptoWsClient::connect_exchange -> WsClientWrapper::connect ->
\* start_background_task: spawns run() unless is_running; a second run()
\* finds params_rx empty and returns at once
ConnectExchange(e) ==
    /\ e \in RouterExchanges
    /\ ~removed[e]
    /\ ~receiver_dropped[e]
    /\ connection_states' = [connection_states EXCEPT ![e] = "Connected"]
    /\ is_running' = [is_running EXCEPT ![e] = TRUE]
    /\ run_pc' = [run_pc EXCEPT
                     ![e] = IF ~is_running[e] /\ @ = "idle" THEN "spawned" ELSE @]
    /\ UNCHANGED <<newVars, connection_state, active_subscriptions, reconnect_in_progress,
                   metricVars, pingVars, connVars, attempt, subscriptions,
                   replay_idx, message_channel, hash_order, last_message, starved,
                   intentVars, closed, conn_delivered>>

\* WSClient::run spawned by a caller that uses the client without the router
DirectRun(e) ==
    /\ e \notin RouterExchanges
    /\ run_pc[e] = "idle"
    /\ run_pc' = [run_pc EXCEPT ![e] = "spawned"]
    /\ UNCHANGED <<newVars, connection_state, active_subscriptions, reconnect_in_progress,
                   metricVars, pingVars, connVars, attempt, subscriptions,
                   replay_idx, message_channel, routerVars, intentVars, closed,
                   conn_delivered>>

\* ------------------------------------------------------------ run()

\* run() up to its first recv: takes the parameters, creates its
\* num_unanswered_ping and starts the ping task with a clone of it
RunStart(e) ==
    /\ run_pc[e] = "spawned"
    /\ run_pc' = [run_pc EXCEPT ![e] = "recv"]
    /\ ping_running' = [ping_running EXCEPT ![e] = TRUE]
    /\ ping_arc' = [ping_arc EXCEPT ![e] = "run"]
    /\ num_unanswered_ping' = [num_unanswered_ping EXCEPT ![e].run = 0]
    /\ pong_since_ping' = [pong_since_ping EXCEPT ![e] = FALSE]
    /\ UNCHANGED <<newVars, connection_state, active_subscriptions, reconnect_in_progress,
                   metricVars, connVars, attempt, subscriptions, replay_idx,
                   message_channel, routerVars, intentVars, closed, conn_delivered>>

\* a text frame the handler classifies Normal: tx.send(txt)
RecvNormal(e, payload) ==
    /\ run_pc[e] = "recv"
    /\ conn_open[e]
    /\ ~receiver_dropped[e]
    /\ Len(message_channel[e]) < MaxQueue
    /\ arrived[e] < MaxArrivals
    /\ arrived' = [arrived EXCEPT ![e] = @ + 1]
    /\ message_channel' =
           [message_channel EXCEPT
               ![e] = Append(@, [cls |-> payload.cls, channel |-> payload.channel,
                                 seq |-> arrived[e] + 1])]
    /\ conn_delivered' = [conn_delivered EXCEPT ![e] = TRUE]
    /\ decode_errors' = [decode_errors EXCEPT ![e] = 0]
    /\ UNCHANGED <<returned, lost, removed, receiver_dropped, callVars, connection_state, active_subscriptions, reconnect_in_progress,
                   metricVars, pingVars, connVars, runVars, routerVars, intentVars,
                   closed>>

\* a text frame the handler classifies Normal when the receiver is gone:
\* tx.send(txt) fails and run() breaks out of 'connection_loop; the ping
\* task and the connection are left as they are
RecvNormalNoReceiver(e) ==
    /\ run_pc[e] = "recv"
    /\ conn_open[e]
    /\ receiver_dropped[e]
    /\ run_pc' = [run_pc EXCEPT ![e] = "stopped"]
    /\ UNCHANGED <<newVars, connection_state, active_subscriptions, reconnect_in_progress,
                   metricVars, pingVars, connVars, attempt, subscriptions, replay_idx,
                   message_channel, routerVars, intentVars, closed, conn_delivered>>

\* MessageHandler::handle_message of each exchange on a text that is not
\* stream data: a JSON object with the key "error", or a text that is not
\* JSON
handle_message(e, body) ==
    CASE e = "binance" -> IF body = "error_payload" THEN "Panic" ELSE "Other"
      [] e = "bybit" -> IF body = "not_json" THEN "Panic" ELSE "Other"
      [] OTHER -> IF body = "error_payload" THEN "Other" ELSE "Normal"

\* the frames of the receive loop that are neither stream data, pong nor
\* close
Frames ==
    {[kind |-> "text", body |-> b] : b \in {"error_payload", "not_json"}}
    \cup {[kind |-> k, body |-> "none"] : k \in {"binary", "ping", "frame"}}

\* what one iteration of the receive loop does with such a frame; the
\* binary frame is one no decoder of the exchange accepts
FrameOutcome(e, frame) ==
    CASE frame.kind = "binary" ->
            IF e \in {"binance", "mexc"} THEN "decode_error" ELSE "panic"
      [] frame.kind = "frame" -> "panic"
      [] frame.kind = "ping" -> "drop"
      [] OTHER ->
            CASE handle_message(e, frame.body) = "Panic" -> "panic"
              [] handle_message(e, frame.body) = "Normal" -> "forward"
              [] OTHER -> "drop"

\* one iteration of the receive loop on a frame of Frames that is not
\* forwarded: the frame is dropped, or the task panics
RecvFrame(e, frame) ==
    /\ run_pc[e] = "recv"
    /\ conn_open[e]
    /\ FrameOutcome(e, frame) # "forward"
    /\ decode_errors[e] < MaxDecodeErrors
    /\ decode_errors' =
           [decode_errors EXCEPT
               ![e] = CASE FrameOutcome(e, frame) = "decode_error" -> @ + 1
                        [] frame.kind = "text" -> 0
                        [] OTHER -> @]
    /\ run_pc' = [run_pc EXCEPT
                     ![e] = IF FrameOutcome(e, frame) = "panic" THEN "panicked" ELSE @]
    /\ UNCHANGED <<deliveryVars, removed, receiver_dropped, callVars, connection_state,
                   active_subscriptions, reconnect_in_progress, metricVars, pingVars,
                   connVars, attempt, subscriptions, replay_idx, message_channel,
                   routerVars, intentVars, closed, conn_delivered>>

\* values of the key "ping" in a JSON ping: lit is the value as it is
\* written, u64 whether serde_json's as_u64 accepts it
PingValues ==
    {[lit |-> "0", u64 |-> TRUE], [lit |-> "1234567890", u64 |-> TRUE],
     [lit |-> "-1", u64 |-> FALSE], [lit |-> "\"a1b2\"", u64 |-> FALSE]}

\* the pings an exchange sends that want a reply: "Ping" and {"ping":N} on
\* BingX, {"msg":"PING"} on MEXC, written with or without a space after
\* the colon
InboundPings(e) ==
    IF e = "bingx"
    THEN {[form |-> "Ping", lit |-> "none", u64 |-> FALSE, spaced |-> FALSE]}
         \cup {[form |-> "json_ping", lit |-> v.lit, u64 |-> v.u64, spaced |-> FALSE] :
                  v \in PingValues}
    ELSE IF e = "mexc"
    THEN {[form |-> "msg_PING", lit |-> "none", u64 |-> FALSE, spaced |-> sp] :
             sp \in BOOLEAN}
    ELSE {}

\* BingxMessageHandler::handle_message on a ping of InboundPings("bingx"):
\* ping.as_u64().unwrap_or(0) is put into the reply
BingxHandleMessage(ping) ==
    IF ping.form = "Ping"
    THEN [kind |-> "WebSocket", text |-> [form |-> "Pong", lit |-> "none"]]
    ELSE [kind |-> "WebSocket",
          text |-> [form |-> "json_pong", lit |-> IF ping.u64 THEN ping.lit ELSE "0"]]

\* MexcMessageHandler::handle_message on a ping of InboundPings("mexc"):
\* only the text equal to {"msg":"PING"} is answered; any other spelling
\* falls through every test of the JSON branch to MiscMessage::Normal
MexcHandleMessage(ping) ==
    IF ~ping.spaced
    THEN [kind |-> "WebSocket", text |-> [form |-> "method_PONG", lit |-> "none"]]
    ELSE [kind |-> "Normal", text |-> [form |-> "none", lit |-> "none"]]

PingHandled(e, ping) ==
    IF e = "bingx" THEN BingxHandleMessage(ping) ELSE MexcHandleMessage(ping)

\* one iteration of the receive loop on an inbound ping:
\* MiscMessage::WebSocket(ws_msg) is sent to command_tx, MiscMessage::Normal
\* is sent to tx
RecvPingText(e, ping) ==
    /\ run_pc[e] = "recv"
    /\ conn_open[e]
    /\ LET r == PingHandled(e, ping) IN
       /\ r.kind = "Normal" =>
              Len(message_channel[e]) < MaxQueue /\ arrived[e] < MaxArrivals
       /\ request' = [step |-> "handled", exchange |-> e, ping |-> ping,
                      queued |-> r.text, forwarded |-> r.kind = "Normal"]
       /\ arrived' = [arrived EXCEPT ![e] = IF r.kind = "Normal" THEN @ + 1 ELSE @]
       /\ message_channel' =
              [message_channel EXCEPT
                  ![e] = IF r.kind = "Normal"
                         THEN Append(@, [cls |-> "service", channel |-> "none",
                                         seq |-> arrived[e] + 1])
                         ELSE @]
       /\ conn_delivered' =
              [conn_delivered EXCEPT ![e] = IF r.kind = "Normal" THEN TRUE ELSE @]
    /\ decode_errors' = [decode_errors EXCEPT ![e] = 0]
    /\ UNCHANGED <<returned, lost, removed, receiver_dropped, construct, raw_message, outcome,
                   ledger_case, user_stream, connection_state, active_subscriptions,
                   reconnect_in_progress, metricVars, pingVars, connVars, runVars,
                   routerVars, intentVars, closed>>

\* Message::Pong, or a text frame the handler classifies MiscMessage::Pong:
\* run() stores 0 into its own num_unanswered_ping
RecvPong(e) ==
    /\ run_pc[e] = "recv"
    /\ conn_open[e]
    /\ num_unanswered_ping' = [num_unanswered_ping EXCEPT ![e].run = 0]
    /\ pong_since_ping' = [pong_since_ping EXCEPT ![e] = TRUE]
    /\ UNCHANGED <<newVars, connection_state, active_subscriptions, reconnect_in_progress,
                   metricVars, ping_running, ping_arc, connVars, runVars,
                   message_channel, routerVars, intentVars, closed, conn_delivered>>

\* Message::Close from the peer: the ping task is aborted and the inner
\* loop is left
RecvClose(e) ==
    /\ run_pc[e] = "recv"
    /\ conn_open[e]
    /\ conn_open' = [conn_open EXCEPT ![e] = FALSE]
    /\ last_close' = [last_close EXCEPT ![e] = "peer"]
    /\ ping_running' = [ping_running EXCEPT ![e] = FALSE]
    /\ run_pc' = [run_pc EXCEPT ![e] = "check"]
    /\ UNCHANGED <<newVars, connection_state, active_subscriptions, reconnect_in_progress,
                   metricVars, ping_arc, num_unanswered_ping, pong_since_ping, replayed,
                   attempt, subscriptions, replay_idx, message_channel, routerVars,
                   intentVars, closed, conn_delivered>>

\* the connection is lost without a close frame
PeerDrop(e) ==
    /\ conn_open[e]
    /\ conn_open' = [conn_open EXCEPT ![e] = FALSE]
    /\ last_close' = [last_close EXCEPT ![e] = "peer"]
    /\ UNCHANGED <<newVars, connection_state, active_subscriptions, reconnect_in_progress,
                   metricVars, pingVars, replayed, runVars, message_channel, routerVars,
                   intentVars, closed, conn_delivered>>

\* message_rx.recv() returns None: the inner loop ends
RecvNone(e) ==
    /\ run_pc[e] = "recv"
    /\ ~conn_open[e]
    /\ run_pc' = [run_pc EXCEPT ![e] = "check"]
    /\ UNCHANGED <<newVars, connection_state, active_subscriptions, reconnect_in_progress,
                   metricVars, pingVars, connVars, attempt, subscriptions,
                   replay_idx, message_channel, routerVars, intentVars, closed,
                   conn_delivered>>

\* after the inner loop: reconnect_in_progress is false, reconnect() is
\* entered, sets the flag and aborts the old ping task
RunCheck(e) ==
    /\ run_pc[e] = "check"
    /\ ~reconnect_in_progress[e]
    /\ reconnection_attempts[e] + MAX_RECONNECT_ATTEMPTS <= MaxAttempts
    /\ reconnect_in_progress' = [reconnect_in_progress EXCEPT ![e] = TRUE]
    /\ ping_running' = [ping_running EXCEPT ![e] = FALSE]
    /\ run_pc' = [run_pc EXCEPT ![e] = "reconnect_attempt"]
    /\ attempt' = [attempt EXCEPT ![e] = 1]
    /\ UNCHANGED <<newVars, connection_state, active_subscriptions, metricVars, ping_arc,
                   num_unanswered_ping, pong_since_ping, connVars, subscriptions,
                   replay_idx, message_channel, routerVars, intentVars, closed,
                   conn_delivered>>

\* ------------------------------------------------------------ reconnect()

\* a loop that runs one attempt too many: for attempt in 1..=MAX + 1
LastAttemptOneMore(a) == a >= MAX_RECONNECT_ATTEMPTS + 1

\* for attempt in 1..=MAX_RECONNECT_ATTEMPTS: this attempt was the last
LastAttempt(a) == a >= MAX_RECONNECT_ATTEMPTS

\* a replay loop that sends the first command of its clone every time
ReplayCommandFirst(subs, idx) == subs[1]

\* the command the replay loop sends at position idx of its clone
ReplayCommand(subs, idx) == subs[idx]

\* connect_async failed: the failure is recorded; after the last attempt
\* the state is Failed, the flag is cleared and reconnect() returns None
ReconnectFail(e) ==
    /\ run_pc[e] = "reconnect_attempt"
    /\ reconnection_attempts' = [reconnection_attempts EXCEPT ![e] = @ + 1]
    /\ metrics' = [metrics EXCEPT ![e] = record_connection_failure(@)]
    /\ IF LastAttempt(attempt[e])
       THEN /\ connection_state' = [connection_state EXCEPT ![e] = FailedMax]
            /\ reconnect_in_progress' = [reconnect_in_progress EXCEPT ![e] = FALSE]
            /\ run_pc' = [run_pc EXCEPT ![e] = "reconnect_none"]
            /\ UNCHANGED attempt
       ELSE /\ attempt' = [attempt EXCEPT ![e] = @ + 1]
            /\ UNCHANGED <<connection_state, reconnect_in_progress, run_pc>>
    /\ UNCHANGED <<newVars, active_subscriptions, pingVars, connVars,
                   subscriptions, replay_idx, message_channel, routerVars,
                   intentVars, closed, conn_delivered>>

\* connect_async succeeded: command_tx is replaced, the state is
\* Connected, the ledger is cloned and the replay loop starts
ReconnectOk(e) ==
    /\ run_pc[e] = "reconnect_attempt"
    /\ reconnection_attempts' = [reconnection_attempts EXCEPT ![e] = @ + 1]
    /\ metrics' = [metrics EXCEPT ![e] = record_connection_success(@)]
    /\ conn_open' = [conn_open EXCEPT ![e] = TRUE]
    /\ last_close' = [last_close EXCEPT ![e] = "none"]
    /\ replayed' = [replayed EXCEPT ![e] = <<>>]
    /\ connection_state' = [connection_state EXCEPT ![e] = "Connected"]
    /\ subscriptions' = [subscriptions EXCEPT ![e] = active_subscriptions[e]]
    /\ replay_idx' = [replay_idx EXCEPT ![e] = 1]
    /\ intent_at_reconnect' = [intent_at_reconnect EXCEPT ![e] = intended[e]]
    /\ conn_delivered' = [conn_delivered EXCEPT ![e] = FALSE]
    /\ run_pc' = [run_pc EXCEPT ![e] = "replay"]
    /\ UNCHANGED <<newVars, active_subscriptions, reconnect_in_progress, pingVars, attempt,
                   message_channel, routerVars, intended, added_reconnecting,
                   closed>>

\* one iteration of the replay loop: command_tx.send of the next command
\* of the clone (an error is logged only), then the delay
ReplayStep(e) ==
    /\ run_pc[e] = "replay"
    /\ replay_idx[e] <= Len(subscriptions[e])
    /\ replayed' = [replayed EXCEPT
                       ![e] = IF conn_open[e]
                              THEN Append(@, ReplayCommand(subscriptions[e], replay_idx[e]))
                              ELSE @]
    /\ replay_idx' = [replay_idx EXCEPT ![e] = @ + 1]
    /\ UNCHANGED <<newVars, connection_state, active_subscriptions, reconnect_in_progress,
                   metricVars, pingVars, conn_open, last_close, run_pc, attempt,
                   subscriptions, message_channel, routerVars, intentVars, closed,
                   conn_delivered>>

\* the replay loop is over: a new Arc<AtomicIsize> for a new ping task,
\* the flag is cleared, reconnect() returns Some(message_rx) and its
\* locals are gone
ReplayDone(e) ==
    /\ run_pc[e] = "replay"
    /\ replay_idx[e] > Len(subscriptions[e])
    /\ num_unanswered_ping' = [num_unanswered_ping EXCEPT ![e].fresh = 0]
    /\ ping_arc' = [ping_arc EXCEPT ![e] = "fresh"]
    /\ ping_running' = [ping_running EXCEPT ![e] = TRUE]
    /\ pong_since_ping' = [pong_since_ping EXCEPT ![e] = FALSE]
    /\ reconnect_in_progress' = [reconnect_in_progress EXCEPT ![e] = FALSE]
    /\ run_pc' = [run_pc EXCEPT ![e] = "recv"]
    /\ subscriptions' = [subscriptions EXCEPT ![e] = <<>>]
    /\ replay_idx' = [replay_idx EXCEPT ![e] = 1]
    /\ replayed' = [replayed EXCEPT ![e] = <<>>]
    /\ intent_at_reconnect' = [intent_at_reconnect EXCEPT ![e] = <<>>]
    /\ added_reconnecting' = [added_reconnecting EXCEPT ![e] = {}]
    /\ UNCHANGED <<newVars, connection_state, active_subscriptions, metricVars, conn_open,
                   last_close, attempt, message_channel, routerVars, intended,
                   closed, conn_delivered>>

\* reconnect() returned None: run() sets Failed and leaves its loop
RunGiveUp(e) ==
    /\ run_pc[e] = "reconnect_none"
    /\ connection_state' = [connection_state EXCEPT ![e] = FailedReconnection]
    /\ run_pc' = [run_pc EXCEPT ![e] = "stopped"]
    /\ UNCHANGED <<newVars, active_subscriptions, reconnect_in_progress, metricVars,
                   pingVars, connVars, attempt, subscriptions, replay_idx,
                   message_channel, routerVars, intentVars, closed, conn_delivered>>

\* ------------------------------------------------------- uplink limit

\* no limit: the None of Option<(NonZeroU32, Duration)>
NoLimit == [messages |-> 0, seconds |-> 0]

\* the UPLINK_LIMIT each client passes to WSClientInternal::connect
UPLINK_LIMIT(exchange) ==
    CASE exchange = "binance" -> [messages |-> 5, seconds |-> 1]
      [] exchange = "bybit" -> [messages |-> 500, seconds |-> 300]
      [] OTHER -> NoLimit

\* connect(): connect_async(url, uplink_limit)
ConnectUplinkLimit(exchange) == UPLINK_LIMIT(exchange)

\* reconnect(): connect_async(&self.url, None)
ReconnectUplinkLimit(exchange) == NoLimit

\* the limit connect_async was given for the connection e has now: the
\* first connection is made by connect(), every later one by reconnect()
ConnectionUplinkLimit(e) ==
    IF metrics[e].successful_connections = 0
    THEN ConnectUplinkLimit(e) ELSE ReconnectUplinkLimit(e)

\* ------------------------------------------------------- the ping task

\* the counter the ping task increments and checks
PingCounter(e) == num_unanswered_ping[e][ping_arc[e]]

\* health_check_timer: unanswered > 2
TooManyUnanswered(n) == n > PingThreshold

\* timer.tick(): the ping is sent and the task's counter incremented; a
\* send error ends the task
PingTick(e) ==
    /\ ping_running[e]
    /\ IF conn_open[e]
       THEN /\ PingCounter(e) < MaxUnanswered
            /\ num_unanswered_ping' =
                   [num_unanswered_ping EXCEPT ![e][ping_arc[e]] = @ + 1]
            /\ pong_since_ping' = [pong_since_ping EXCEPT ![e] = FALSE]
            /\ UNCHANGED ping_running
       ELSE /\ ping_running' = [ping_running EXCEPT ![e] = FALSE]
            /\ UNCHANGED <<num_unanswered_ping, pong_since_ping>>
    /\ UNCHANGED <<newVars, connection_state, active_subscriptions, reconnect_in_progress,
                   metricVars, ping_arc, connVars, runVars, message_channel,
                   routerVars, intentVars, closed, conn_delivered>>

\* health_check_timer.tick() with too many unanswered pings and no
\* reconnection in progress: Close(None) goes to the command queue and ends
\* the connection; a send error ends the task
HealthCheck(e) ==
    /\ ping_running[e]
    /\ TooManyUnanswered(PingCounter(e))
    /\ ~reconnect_in_progress[e]
    /\ IF conn_open[e]
       THEN /\ conn_open' = [conn_open EXCEPT ![e] = FALSE]
            /\ last_close' = [last_close EXCEPT ![e] = "ping_timeout"]
            /\ UNCHANGED ping_running
       ELSE /\ ping_running' = [ping_running EXCEPT ![e] = FALSE]
            /\ UNCHANGED <<conn_open, last_close>>
    /\ UNCHANGED <<newVars, connection_state, active_subscriptions, reconnect_in_progress,
                   metricVars, ping_arc, num_unanswered_ping, pong_since_ping, replayed,
                   runVars, message_channel, routerVars, intentVars, closed,
                   conn_delivered>>

\* ------------------------------------------------------------ the router

\* parse_message_static: Ok(WsMessage) for a data payload, Err for a
\* service message
ParsesToMessage(raw) == raw.cls = "data"

\* the exchanges CryptoWsClient::next_message collects, in map order
ConnectedExchanges ==
    SelectSeq(hash_order, LAMBDA x : connection_states[x] = "Connected")

\* a receiver that hands out the newest message first
try_recv_newest(channel) ==
    [msg |-> channel[Len(channel)], rest |-> SubSeq(channel, 1, Len(channel) - 1)]

\* MessageChannel::try_recv on a channel that is not empty: the oldest
\* message, and what stays in the channel
try_recv(channel) == [msg |-> Head(channel), rest |-> Tail(channel)]

\* the for loop of CryptoWsClient::next_message over WsClientWrapper::
\* next_message: each client gives up one raw message; the first that
\* parses is returned, one that does not parse is dropped
RECURSIVE NextMessageScan(_, _)
NextMessageScan(order, chans) ==
    IF order = <<>> THEN [chans |-> chans, msg |-> NoMessage]
    ELSE LET x == Head(order) IN
         IF chans[x] = <<>> THEN NextMessageScan(Tail(order), chans)
         ELSE LET raw == try_recv(chans[x]).msg
                  rest == [chans EXCEPT ![x] = try_recv(chans[x]).rest]
              IN IF ParsesToMessage(raw)
                 THEN [chans |-> rest, msg |-> <<x, raw>>]
                 ELSE NextMessageScan(Tail(order), rest)

\* a Connected exchange has a data message waiting in chans
PendingIn(chans, e) ==
    /\ connection_states[e] = "Connected"
    /\ \E i \in 1..Len(chans[e]) : ParsesToMessage(chans[e][i])

\* a Connected exchange has a data message waiting in its channel
Pending(e) == PendingIn(message_channel, e)

\* the passed-over counts after one next_message call that found chans
\* and returned msg
StarvedAfter(st, chans, msg) ==
    [e \in Sup |->
        IF msg = NoMessage THEN st[e]
        ELSE IF msg[1] = e \/ ~PendingIn(chans, e) THEN 0
        ELSE IF st[e] < StarveLimit THEN st[e] + 1
        ELSE st[e]]

\* CryptoWsClient::next_message
NextMessage ==
    LET r == NextMessageScan(ConnectedExchanges, message_channel) IN
    /\ hash_order # <<>>
    /\ message_channel' = r.chans
    /\ last_message' = r.msg
    /\ starved' = StarvedAfter(starved, message_channel, r.msg)
    /\ returned' = IF r.msg = NoMessage THEN returned
                   ELSE [returned EXCEPT ![r.msg[1]] = Append(@, r.msg[2])]
    /\ UNCHANGED <<arrived, lost, removed, receiver_dropped, decode_errors, callVars, connection_state,
                   active_subscriptions, reconnect_in_progress,
                   metricVars, pingVars, connVars, runVars, connection_states,
                   is_running, hash_order, intentVars, closed, conn_delivered>>

\* the loop of next_private_message (private = TRUE) and of
\* next_public_message (private = FALSE): next_message is called until it
\* returns None or a message of the wanted kind; a message of the other
\* kind is skipped
RECURSIVE NextFiltered(_, _, _, _)
NextFiltered(private, chans, st, skipped) ==
    LET r == NextMessageScan(ConnectedExchanges, chans)
        st2 == StarvedAfter(st, chans, r.msg)
    IN IF r.msg = NoMessage \/ (r.msg[2].channel \in PrivateChannels) = private
       THEN [chans |-> r.chans, msg |-> r.msg, starved |-> st2, skipped |-> skipped]
       ELSE NextFiltered(private, r.chans, st2, skipped \cup {r.msg})

\* CryptoWsClient::next_private_message and ::next_public_message
NextFilteredMessage(private) ==
    LET r == NextFiltered(private, message_channel, starved, {}) IN
    /\ hash_order # <<>>
    /\ message_channel' = r.chans
    /\ last_message' = r.msg
    /\ starved' = r.starved
    /\ returned' = IF r.msg = NoMessage THEN returned
                   ELSE [returned EXCEPT ![r.msg[1]] = Append(@, r.msg[2])]
    /\ lost' = [e \in Sup |-> lost[e] \cup {m[2].seq : m \in {k \in r.skipped : k[1] = e}}]
    /\ UNCHANGED <<arrived, removed, receiver_dropped, decode_errors, callVars, connection_state,
                   active_subscriptions, reconnect_in_progress,
                   metricVars, pingVars, connVars, runVars, connection_states,
                   is_running, hash_order, intentVars, closed, conn_delivered>>

\* CryptoWsClient::next_private_message
NextPrivateMessage == NextFilteredMessage(TRUE)

\* CryptoWsClient::next_public_message
NextPublicMessage == NextFilteredMessage(FALSE)

\* ------------------------------------------- WSClientInternal::connect

\* what connect_async can fail with: HTTP 429, another HTTP status, any
\* other error (transport, timeout)
ConnectErrors == {"http_429", "http_429_retry_after", "http_other", "other"}

Min(a, b) == IF a <= b THEN a ELSE b

\* backoff_time of connect() before the first attempt
connect_backoff_time(exchange) == IF exchange = "mexc" THEN 5 ELSE 2

\* seconds a retry-after header can ask for
RetryAfterSeconds == {30, 600}

\* the seconds connect() sleeps after a failed attempt that is retried:
\* after a 429 the header's seconds plus rand % 9 + 1, or without the header
\* backoff_time plus rand % 10 (the least and the largest draw); after any
\* other error backoff_time
ConnectWaits(err, backoff_time) ==
    CASE err = "http_429_retry_after" -> {h + j : h \in RetryAfterSeconds, j \in {1, 9}}
      [] err = "http_429" -> {backoff_time + j : j \in {0, 9}}
      [] OTHER -> {backoff_time}

\* backoff_time of connect() after the sleep
ConnectNextBackoff(exchange, err, backoff_time) ==
    IF err \in {"http_429", "http_429_retry_after"}
    THEN Min(backoff_time * 2, IF exchange = "mexc" THEN 300 ELSE 120)
    ELSE Min(backoff_time * 2, 60)

\* backoff_time of reconnect() when it sleeps before the given attempt
RECURSIVE reconnect_backoff_time(_, _)
reconnect_backoff_time(exchange, a) ==
    IF a <= 1 THEN IF exchange = "binance" THEN 5 ELSE 2
    ELSE Min(reconnect_backoff_time(exchange, a - 1) * 2,
             IF exchange = "binance" THEN 120 ELSE 60)

\* connect_async failed in the constructor: an HTTP status other than 429
\* panics at once, any other error is retried while attempt <
\* MAX_CONNECTION_ATTEMPTS and panics after the last attempt
ConnectFail(err) ==
    /\ construct.step = "connecting"
    /\ \E wait \in ConnectWaits(err, construct.backoff_time) :
          construct' =
              IF err # "http_other" /\ construct.attempt < MAX_CONNECTION_ATTEMPTS
              THEN [construct EXCEPT
                       !.attempt = @ + 1,
                       !.error = err,
                       !.first_wait = IF construct.attempt = 1 THEN wait ELSE @,
                       !.last_wait = wait,
                       !.backoff_time = ConnectNextBackoff(construct.exchange, err, @)]
              ELSE [construct EXCEPT !.step = "panicked", !.error = err]
    /\ UNCHANGED <<connection_state, active_subscriptions, reconnect_in_progress,
                   metricVars, pingVars, connVars, runVars, message_channel,
                   routerVars, intentVars, closed, conn_delivered, deliveryVars,
                   removed, receiver_dropped, decode_errors, raw_message, outcome, ledger_case,
                   user_stream, request>>

\* connect_async succeeded in the constructor: the supervisor exists, with
\* state Connected
ConnectOk ==
    /\ construct.step = "connecting"
    /\ construct' = [construct EXCEPT !.step = "returned"]
    /\ LET S == {construct.exchange} IN
       /\ connection_state' = [e \in S |-> "Connected"]
       /\ active_subscriptions' = [e \in S |-> <<>>]
       /\ reconnect_in_progress' = [e \in S |-> FALSE]
       /\ reconnection_attempts' = [e \in S |-> 0]
       /\ metrics' = [e \in S |-> NoConnections]
       /\ ping_running' = [e \in S |-> FALSE]
       /\ ping_arc' = [e \in S |-> "run"]
       /\ num_unanswered_ping' = [e \in S |-> [run |-> 0, fresh |-> 0]]
       /\ conn_open' = [e \in S |-> TRUE]
       /\ last_close' = [e \in S |-> "none"]
       /\ replayed' = [e \in S |-> <<>>]
       /\ run_pc' = [e \in S |-> "idle"]
       /\ attempt' = [e \in S |-> 0]
       /\ subscriptions' = [e \in S |-> <<>>]
       /\ replay_idx' = [e \in S |-> 1]
       /\ message_channel' = [e \in S |-> <<>>]
       /\ connection_states' =
              [e \in S |-> IF e \in RouterExchanges THEN "Disconnected" ELSE "absent"]
       /\ is_running' = [e \in S |-> FALSE]
       /\ hash_order' \in Orders(S \cap RouterExchanges)
       /\ intended' = [e \in S |-> <<>>]
       /\ intent_at_reconnect' = [e \in S |-> <<>>]
       /\ added_reconnecting' = [e \in S |-> {}]
       /\ closed' = [e \in S |-> FALSE]
       /\ pong_since_ping' = [e \in S |-> FALSE]
       /\ conn_delivered' = [e \in S |-> FALSE]
       /\ starved' = [e \in S |-> 0]
       /\ arrived' = [e \in S |-> 0]
       /\ returned' = [e \in S |-> <<>>]
       /\ lost' = [e \in S |-> {}]
       /\ removed' = [e \in S |-> FALSE]
       /\ receiver_dropped' = [e \in S |-> FALSE]
       /\ decode_errors' = [e \in S |-> 0]
    /\ UNCHANGED <<last_message, raw_message, outcome, ledger_case, user_stream,
                   request>>

\* ------------------------------------- WsClientWrapper::parse_message_static

\* A decoded JSON payload is a record of the fields the classifier reads.
\* A string field is a sequence of tokens, Null when the field is missing
\* and NonStr when it is there but is not a string (as_str gives None).
Null == <<"null">>

NonStr == <<"nonstring">>

as_str(v) == IF v = NonStr THEN Null ELSE v

\* str::contains, computed on tokens.
Contains(s, pat) ==
    \E i \in 1..(Len(s) - Len(pat) + 1) : SubSeq(s, i, i + Len(pat) - 1) = pat

\* str::split('@')
RECURSIVE SplitAt(_, _)
SplitAt(s, cur) ==
    IF s = <<>> THEN <<cur>>
    ELSE IF Head(s) = "@" THEN <<cur>> \o SplitAt(Tail(s), <<>>)
         ELSE SplitAt(Tail(s), Append(cur, Head(s)))

\* Number of characters of a token, and str::len.
TokLen(t) ==
    CASE t \in {"@", ".", "-", "_", "s"} -> 1
      [] t \in {"v3", "pb", "MX", "1m"} -> 2
      [] t \in {"api", "BTC", "ETH", "0.1"} -> 3
      [] t \in {"spot", "deal", "push", "USDT", "USDC", "Min1"} -> 4
      [] t \in {"depth", "kline", "trade", "CLORE"} -> 5
      [] t \in {"public", "orders", "ticker"} -> 6
      [] t \in {"increase", "personal", "aggTrade"} -> 8
      [] t \in {"depth@100ms"} -> 11
      [] OTHER -> 7

RECURSIVE StrLen(_)
StrLen(s) == IF s = <<>> THEN 0 ELSE TokLen(Head(s)) + StrLen(Tail(s))

UNKNOWN == <<"UNKNOWN">>

ACCOUNT == <<"ACCOUNT">>

OkMessage(channel_type, sym) ==
    [kind |-> "Data", channel |-> channel_type, symbol |-> sym, error |-> "none"]

ErrMessage(why) ==
    [kind |-> "Err", channel |-> "none", symbol |-> Null, error |-> why]

\* Channel types that next_public_message lets through.
PublicChannels == {"Trades", "Orderbook", "Ticker", "Kline"}

is_service_message(exchange_type, data) ==
    CASE exchange_type = "MexcSpot" ->
            IF {"id", "code", "msg"} \subseteq data.ack THEN TRUE
            ELSE IF as_str(data.channel) # Null
                    /\ Contains(as_str(data.channel), <<"private">>) THEN FALSE
            ELSE IF data.privateDeals.present \/ data.privateAccount
                    \/ data.createTime THEN FALSE
            ELSE data.c = Null /\ ~data.d.present
      [] exchange_type = "MexcSwap" ->
            IF {"id", "code"} \subseteq data.ack THEN TRUE
            ELSE data.channel = Null /\ ~data.data
      [] exchange_type \in {"BingxSpot", "BingxSwap"} ->
            IF data.result = "bool" THEN TRUE
            ELSE data.dataType = Null /\ ~data.data
      [] OTHER -> FALSE

is_private_message(exchange_type, data) ==
    CASE exchange_type = "MexcSpot" ->
            \/ as_str(data.channel) # Null
               /\ Contains(as_str(data.channel), <<"private">>)
            \/ data.privateDeals.present
            \/ data.privateAccount
            \/ /\ data.d.present
               /\ as_str(data.d.symbol) # Null
               /\ Contains(as_str(data.d.symbol), <<"private", ".", "deal", "s">>)
      [] exchange_type = "MexcSwap" ->
            /\ as_str(data.channel) # Null
            /\ \/ Contains(as_str(data.channel), <<"private">>)
               \/ Contains(as_str(data.channel), <<"account">>)
      [] exchange_type \in {"BingxSpot", "BingxSwap"} ->
            /\ as_str(data.dataType) # Null
            /\ \/ Contains(as_str(data.dataType), <<"account">>)
               \/ Contains(as_str(data.dataType), <<"private">>)
      [] OTHER -> FALSE

\* The symbol of a mixed-format private fill, recovered from d.quantity.
SymbolFromQuantity(d) ==
    LET q == IF d.present THEN as_str(d.quantity) ELSE Null IN
    IF /\ q # Null
       /\ q # <<>>
       /\ \/ Contains(q, <<"USDT">>) \/ Contains(q, <<"USDC">>)
          \/ Contains(q, <<"BTC">>)
    THEN q ELSE UNKNOWN

parse_private_message(exchange_type, data) ==
    CASE exchange_type = "MexcSpot" ->
            LET channel_str == as_str(data.channel)
                d_symbol == IF data.d.present THEN as_str(data.d.symbol) ELSE Null
            IN
            IF channel_str # Null
               /\ Contains(channel_str, <<"private", ".", "deal", "s">>)
            THEN OkMessage("PrivateDeals",
                    IF as_str(data.symbol) # Null THEN as_str(data.symbol)
                    ELSE IF data.privateDeals.present
                            /\ as_str(data.privateDeals.feeCurrency) = <<"MX">>
                         THEN <<"MX", "USDT">>
                         ELSE UNKNOWN)
            ELSE IF channel_str # Null
                    /\ \/ Contains(channel_str, <<"private", ".", "account">>)
                       \/ Contains(channel_str, <<"account">>)
            THEN OkMessage("AccountBalance", ACCOUNT)
            ELSE IF data.privateDeals.present
            THEN OkMessage("PrivateDeals",
                    IF as_str(data.symbol) # Null THEN as_str(data.symbol)
                    ELSE UNKNOWN)
            ELSE IF d_symbol # Null
                    /\ Contains(d_symbol, <<"private", ".", "deal", "s">>)
            THEN OkMessage("PrivateDeals", SymbolFromQuantity(data.d))
            ELSE IF data.privateAccount
            THEN OkMessage("AccountBalance", ACCOUNT)
            ELSE ErrMessage("private_format")
      [] exchange_type = "MexcSwap" ->
            LET channel_str == IF as_str(data.channel) = Null THEN <<>>
                               ELSE as_str(data.channel) IN
            IF Contains(channel_str, <<"account">>)
               \/ Contains(channel_str, <<"private">>)
            THEN OkMessage("AccountBalance", ACCOUNT)
            ELSE ErrMessage("private_format")
      [] exchange_type \in {"BingxSpot", "BingxSwap"} ->
            LET data_type == IF as_str(data.dataType) = Null THEN <<>>
                             ELSE as_str(data.dataType) IN
            IF Contains(data_type, <<"account">>)
               \/ Contains(data_type, <<"private">>)
            THEN OkMessage("AccountBalance", ACCOUNT)
            ELSE ErrMessage("private_format")
      [] OTHER -> ErrMessage("private_format")

\* The symbol at the end of a MEXC channel name, Null where the code
\* returns Err.
extract_mexc_symbol_from_channel(channel_str) ==
    LET parts == SplitAt(channel_str, <<>>)
        symbol_part == parts[Len(parts)]
        n == Len(symbol_part)
    IN
    IF Len(parts) < 3 THEN Null
    ELSE IF \/ Contains(symbol_part, <<"api">>) \/ Contains(symbol_part, <<"pb">>)
            \/ Contains(symbol_part, <<"v3">>)
    THEN Null
    ELSE IF StrLen(symbol_part) >= 6 /\ n > 0 /\ symbol_part[n] = "USDT"
    THEN SubSeq(symbol_part, 1, n - 1) \o <<"_", "USDT">>
    ELSE IF StrLen(symbol_part) >= 7 /\ n > 0 /\ symbol_part[n] = "USDC"
    THEN SubSeq(symbol_part, 1, n - 1) \o <<"_", "USDC">>
    ELSE symbol_part

extract_channel_and_symbol(exchange_type, data) ==
    CASE exchange_type = "MexcSpot" ->
            LET user_channel == as_str(data.channel)
                channel_str == as_str(data.c)
                d_symbol == IF data.d.present THEN as_str(data.d.symbol) ELSE Null
                from_channel == extract_mexc_symbol_from_channel(channel_str)
            IN
            IF user_channel # Null
               /\ \/ Contains(user_channel, <<"private", ".", "account">>)
                  \/ Contains(user_channel, <<"account">>)
            THEN OkMessage("AccountBalance", ACCOUNT)
            ELSE IF user_channel # Null
                    /\ Contains(user_channel, <<"private", ".", "deal", "s">>)
            THEN OkMessage("PrivateDeals",
                    IF data.privateDeals.present
                       /\ as_str(data.privateDeals.symbol) # Null
                    THEN as_str(data.privateDeals.symbol)
                    ELSE IF as_str(data.symbol) # Null THEN as_str(data.symbol)
                    ELSE UNKNOWN)
            ELSE IF channel_str = Null
            THEN IF data.privateAccount \/ data.createTime
                 THEN OkMessage("AccountBalance", ACCOUNT)
                 ELSE ErrMessage("public_format")
            ELSE IF Contains(channel_str, <<"deal", "s">>)
            THEN IF d_symbol # Null
                    /\ Contains(d_symbol, <<"private", ".", "deal", "s">>)
                 THEN OkMessage("PrivateDeals", SymbolFromQuantity(data.d))
                 ELSE IF from_channel # Null THEN OkMessage("Trades", from_channel)
                 ELSE OkMessage("Trades",
                                IF d_symbol # Null THEN d_symbol ELSE UNKNOWN)
            ELSE IF Contains(channel_str, <<"depth">>)
                    \/ Contains(channel_str, <<"increase", ".", "depth">>)
            THEN IF from_channel # Null THEN OkMessage("Orderbook", from_channel)
                 ELSE ErrMessage("public_format")
            ELSE IF Contains(channel_str, <<"kline">>)
            THEN IF from_channel # Null THEN OkMessage("Kline", from_channel)
                 ELSE ErrMessage("public_format")
            ELSE IF \/ Contains(channel_str, <<"balance">>)
                    \/ Contains(channel_str, <<"account">>)
                    \/ Contains(channel_str, <<"executionReport">>)
            THEN OkMessage("AccountBalance", ACCOUNT)
            ELSE ErrMessage("public_format")
      [] exchange_type = "MexcSwap" ->
            LET channel_str == as_str(data.channel)
                channel_type ==
                    IF Contains(channel_str, <<"deal">>) THEN "Trades"
                    ELSE IF Contains(channel_str, <<"depth">>) THEN "Orderbook"
                    ELSE IF Contains(channel_str, <<"ticker">>) THEN "Ticker"
                    ELSE IF Contains(channel_str, <<"balance">>)
                            \/ Contains(channel_str, <<"account">>)
                    THEN "AccountBalance"
                    ELSE "none"
            IN
            IF channel_str = Null \/ channel_type = "none"
            THEN ErrMessage("public_format")
            ELSE IF channel_type = "AccountBalance"
            THEN OkMessage(channel_type, ACCOUNT)
            ELSE IF as_str(data.symbol) = Null THEN ErrMessage("public_format")
            ELSE OkMessage(channel_type, as_str(data.symbol))
      [] exchange_type \in {"BingxSpot", "BingxSwap"} ->
            LET data_type == as_str(data.dataType)
                parts == SplitAt(data_type, <<>>)
                channel_str == parts[2]
                channel_type ==
                    IF channel_str = <<"trade">> THEN "Trades"
                    ELSE IF channel_str = <<"depth">> THEN "Orderbook"
                    ELSE IF channel_str = <<"ticker">> THEN "Ticker"
                    ELSE IF channel_str # <<>> /\ Head(channel_str) = "kline"
                    THEN "Kline"
                    ELSE IF channel_str \in {<<"balance">>, <<"account">>}
                    THEN "AccountBalance"
                    ELSE "none"
            IN
            IF data_type = Null \/ Len(parts) # 2 THEN ErrMessage("public_format")
            ELSE IF channel_type = "none" THEN ErrMessage("public_format")
            ELSE IF channel_type = "AccountBalance"
            THEN OkMessage(channel_type, ACCOUNT)
            ELSE OkMessage(channel_type, ReplaceToken(parts[1], "-", "_"))
      [] OTHER -> ErrMessage("public_format")

\* parse_message_static with the public extraction tried before the private
\* check.
parse_message_static_public_first(exchange_type, data) ==
    IF ~data.json THEN ErrMessage("json")
    ELSE IF is_service_message(exchange_type, data) THEN ErrMessage("service")
    ELSE IF extract_channel_and_symbol(exchange_type, data).kind = "Data"
    THEN extract_channel_and_symbol(exchange_type, data)
    ELSE IF is_private_message(exchange_type, data)
    THEN parse_private_message(exchange_type, data)
    ELSE extract_channel_and_symbol(exchange_type, data)

parse_message_static(exchange_type, data) ==
    IF ~data.json THEN ErrMessage("json")
    ELSE IF is_service_message(exchange_type, data) THEN ErrMessage("service")
    ELSE IF is_private_message(exchange_type, data)
    THEN parse_private_message(exchange_type, data)
    ELSE extract_channel_and_symbol(exchange_type, data)

\* The payloads the classifier is applied to: per exchange, every
\* combination of the fields that exchange's branch reads.
NoObject == [present |-> FALSE, symbol |-> Null, quantity |-> Null]

NoDeals == [present |-> FALSE, feeCurrency |-> Null, symbol |-> Null]

PrivateDealsChannel == <<"spot", "@", "private", ".", "deal", "s", ".", "v3", ".", "api", ".", "pb">>

PublicDealsChannel == <<"spot", "@", "public", ".", "deal", "s", ".", "v3", ".", "api">>

PublicDepthChannel == <<"spot", "@", "public", ".", "increase", ".", "depth", ".", "v3", ".", "api">>

BlankPayload ==
    [json |-> TRUE, ack |-> {}, channel |-> Null, privateDeals |-> NoDeals,
     privateAccount |-> FALSE, createTime |-> FALSE, c |-> Null, d |-> NoObject,
     symbol |-> Null, dataType |-> Null, result |-> "absent", data |-> FALSE]

MexcSpotPayloads ==
    {[BlankPayload EXCEPT !.ack = a, !.channel = ch, !.privateDeals = pd,
                          !.privateAccount = pa, !.createTime = ct, !.c = cc,
                          !.d = dd, !.symbol = sy] :
        a \in {{}, {"id", "code"}, {"id", "code", "msg"}},
        ch \in {Null, PrivateDealsChannel,
                <<"spot", "@", "private", ".", "account", ".", "v3", ".", "api", ".", "pb">>,
                <<"spot", "@", "private", ".", "orders", ".", "v3", ".", "api", ".", "pb">>},
        pd \in {NoDeals,
                [present |-> TRUE, feeCurrency |-> <<"MX">>, symbol |-> Null],
                [present |-> TRUE, feeCurrency |-> <<"USDT">>, symbol |-> Null],
                [present |-> TRUE, feeCurrency |-> Null, symbol |-> <<"CLORE", "USDT">>]},
        pa \in BOOLEAN, ct \in BOOLEAN,
        cc \in {Null, PublicDealsChannel,
                PublicDealsChannel \o <<"@", "BTC", "USDT">>,
                PublicDepthChannel,
                PublicDepthChannel \o <<"@", "BTC", "USDT">>,
                <<"spot", "@", "public", ".", "ticker", ".", "v3", ".", "api">>},
        dd \in {NoObject} \cup
               [present : {TRUE},
                symbol : {Null, <<"BTC", "USDT">>, PrivateDealsChannel},
                quantity : {Null, <<>>, <<"CLORE", "USDT">>, <<"0.1">>}],
        sy \in {Null, <<"MX", "USDT">>}}

MexcSwapPayloads ==
    {[BlankPayload EXCEPT !.ack = a, !.channel = ch, !.symbol = sy, !.data = da] :
        a \in {{}, {"id"}, {"id", "code"}},
        ch \in {Null, NonStr, <<"push", ".", "deal">>, <<"push", ".", "depth">>,
                <<"push", ".", "ticker">>, <<"push", ".", "personal", ".", "account">>,
                <<"push", ".", "private", ".", "order">>, <<"push", ".", "funding">>},
        sy \in {Null, <<"BTC", "_", "USDT">>},
        da \in BOOLEAN}

BingxPayloads ==
    {[BlankPayload EXCEPT !.dataType = dt, !.result = re, !.data = da] :
        dt \in {Null, <<"BTC", "-", "USDT", "@", "trade">>,
                <<"BTC", "-", "USDT", "@", "depth">>,
                <<"BTC", "-", "USDT", "@", "kline", "_", "1m">>,
                <<"BTC", "-", "USDT", "@", "account">>,
                <<"BTC", "-", "USDT", "@", "balance">>,
                <<"BTC", "-", "USDT", "@", "funding">>,
                <<"private", ".", "order">>, <<"trade">>},
        re \in {"absent", "bool", "other"},
        da \in BOOLEAN}

ClassifierInputs ==
    {[exchange_type |-> "MexcSpot", data |-> p] : p \in MexcSpotPayloads}
    \cup {[exchange_type |-> "MexcSwap", data |-> p] : p \in MexcSwapPayloads}
    \cup {[exchange_type |-> x, data |-> p] :
             x \in {"BingxSpot", "BingxSwap"}, p \in BingxPayloads}
    \cup {[exchange_type |-> x, data |-> [BlankPayload EXCEPT !.json = j]] :
             x \in {"MexcSpot", "BinanceSpot"}, j \in BOOLEAN}

\* One call of parse_message_static on the payload drawn in the initial state.
Classify ==
    /\ raw_message.step = "input"
    /\ outcome.step = "none"
    /\ outcome' = [step |-> "done",
                   message |-> parse_message_static(raw_message.exchange_type,
                                                    raw_message.data)]
    /\ UNCHANGED <<metricVars, pingVars, connVars, runVars, routerVars, intentVars,
                   deliveryVars, removed, receiver_dropped, decode_errors, connection_state, active_subscriptions,
                   reconnect_in_progress, message_channel, closed, conn_delivered,
                   construct, raw_message, ledger_case, user_stream, request>>

\* ------------------------------- send(): subscribe, then unsubscribe

\* Sequences of at most n elements of S.
SeqsUpTo(S, n) == UNION {[1..k -> S] : k \in 0..n}

\* The ledgers a supervisor of exchange e can hold: only Bybit's subscribe
\* commands pass the contains("subscribe") test of send().
LedgersOf(e) ==
    SeqsUpTo({c \in {SubscribeCommand(e, sy, ts) : sy \in Symbols, ts \in Clock(e)} :
                 LedgerAfter(<<>>, c) # <<>>}, MaxLedger)

\* subscribe_trade(&[symbol]) on the ledger drawn in the initial state
LedgerSubscribe ==
    /\ ledger_case.step = "start"
    /\ ledger_case' =
           [ledger_case EXCEPT
               !.step = "subscribed",
               !.ledger = LedgerAfter(@, SubscribeCommand(ledger_case.exchange,
                                                          ledger_case.symbol,
                                                          ledger_case.sub_ts))]
    /\ UNCHANGED <<metricVars, pingVars, connVars, runVars, routerVars, intentVars,
                   deliveryVars, removed, receiver_dropped, decode_errors, connection_state, active_subscriptions,
                   reconnect_in_progress, message_channel, closed, conn_delivered,
                   construct, raw_message, outcome, user_stream, request>>

\* unsubscribe(&[("trade", symbol)]) of the same symbol
LedgerUnsubscribe ==
    /\ ledger_case.step = "subscribed"
    /\ ledger_case' =
           [ledger_case EXCEPT
               !.step = "done",
               !.ledger = LedgerAfter(@, UnsubscribeCommand(ledger_case.exchange,
                                                            ledger_case.symbol,
                                                            ledger_case.unsub_ts))]
    /\ UNCHANGED <<metricVars, pingVars, connVars, runVars, routerVars, intentVars,
                   deliveryVars, removed, receiver_dropped, decode_errors, connection_state, active_subscriptions,
                   reconnect_in_progress, message_channel, closed, conn_delivered,
                   construct, raw_message, outcome, user_stream, request>>

\* ------------------------------------------- MEXC user data stream

\* listen keys POST /api/v3/userDataStream hands out
ListenKeys == {"listenKey1", "listenKey2"}

\* HTTP statuses of PUT /api/v3/userDataStream
KeepAliveStatuses == {"200", "401", "500"}

\* MexcSpotRestClient::keep_alive_listen_key(status): one request, Ok for a
\* success status and Err for any other
keep_alive_listen_key(status) == IF status = "200" THEN "Ok" ELSE "Err"

\* the caller asks the REST client to prolong the key it holds; the call
\* returns its Result and touches no supervisor
KeepAlive(status) ==
    /\ user_stream.step = "streaming"
    /\ status # "200" => user_stream.failures < MaxKeepAliveFailures
    /\ user_stream' =
           [user_stream EXCEPT
               !.keep_alive = keep_alive_listen_key(status),
               !.status = status,
               !.failures = IF status = "200" THEN 0 ELSE @ + 1]
    /\ UNCHANGED <<metricVars, pingVars, connVars, runVars, routerVars, intentVars,
                   deliveryVars, removed, receiver_dropped, decode_errors, connection_state, active_subscriptions,
                   reconnect_in_progress, message_channel, closed, conn_delivered,
                   construct, raw_message, outcome, ledger_case, request>>

\* MexcSpotRestClient::get_listen_key: the caller is given a new key; the
\* url of the supervisor that exists keeps the key it was built with
GetListenKey(key) ==
    /\ user_stream.step = "streaming"
    /\ user_stream' = [user_stream EXCEPT !.held_key = key]
    /\ UNCHANGED <<metricVars, pingVars, connVars, runVars, routerVars, intentVars,
                   deliveryVars, removed, receiver_dropped, decode_errors, connection_state, active_subscriptions,
                   reconnect_in_progress, message_channel, closed, conn_delivered,
                   construct, raw_message, outcome, ledger_case, request>>

\* ------------------------------------- subscribe_ticker, subscribe_candlestick

\* the arms of WsClientWrapper that hold no client
StubbedArms ==
    {"WsClientWrapper::Binance", "WsClientWrapper::Okx", "WsClientWrapper::Bybit",
     "WsClientWrapper::Huobi", "WsClientWrapper::Kucoin", "WsClientWrapper::Bitget",
     "WsClientWrapper::Kraken", "WsClientWrapper::Gate"}

\* receivers of subscribe_ticker: the arms of WsClientWrapper and the two
\* clients behind them
TickerReceivers ==
    {"WsClientWrapper::MexcSpot", "WsClientWrapper::MexcUserDataStream",
     "WsClientWrapper::BingxSwap", "WsClientWrapper::Placeholder",
     "MexcSpotWSClient", "BingxSwapWSClient"} \cup StubbedArms

\* receivers of subscribe_candlestick
CandlestickReceivers == {"BinanceSpotWSClient", "MexcSpotWSClient", "BingxSwapWSClient"}

\* candlestick intervals, in seconds, a caller asks for
Intervals == {60, 300, 7200, 999}

\* the intervals each exchange has a name for
BinanceIntervals ==
    {60, 180, 300, 900, 1800, 3600, 7200, 14400, 21600, 28800, 43200, 86400,
     259200, 604800, 2592000}

MexcIntervals == {60, 300, 900, 1800, 3600, 14400, 86400}

BingxIntervals ==
    {60, 300, 900, 1800, 3600, 7200, 14400, 21600, 28800, 43200, 86400, 259200,
     604800, 2592000}

\* BinanceCommandTranslator::to_candlestick_raw_channel; "panic" is the
\* panic! of its last arm
to_candlestick_raw_channel(interval) ==
    CASE interval = 60 -> "kline_1m"
      [] interval = 300 -> "kline_5m"
      [] interval = 7200 -> "kline_2h"
      [] interval \in BinanceIntervals -> "kline_other"
      [] OTHER -> "panic"

\* MexcCommandTranslator::interval_to_string
MexcIntervalToString(interval) ==
    CASE interval = 60 -> "Min1"
      [] interval = 300 -> "Min5"
      [] interval = 900 -> "Min15"
      [] interval = 1800 -> "Min30"
      [] interval = 3600 -> "Hour1"
      [] interval = 14400 -> "Hour4"
      [] interval = 86400 -> "Day1"
      [] OTHER -> "Min1"

\* BingxCommandTranslator::interval_to_string
BingxIntervalToString(interval) ==
    CASE interval = 60 -> "1m"
      [] interval = 300 -> "5m"
      [] interval = 900 -> "15m"
      [] interval = 1800 -> "30m"
      [] interval = 3600 -> "1h"
      [] interval = 7200 -> "2h"
      [] interval = 14400 -> "4h"
      [] interval = 21600 -> "6h"
      [] interval = 28800 -> "8h"
      [] interval = 43200 -> "12h"
      [] interval = 86400 -> "1d"
      [] interval = 259200 -> "3d"
      [] interval = 604800 -> "1w"
      [] interval = 2592000 -> "1M"
      [] OTHER -> "1m"

\* BingxCommandTranslator::subscription_command("ticker", symbol)
BingxTickerCommand(symbol, ts) ==
    <<"{\"id\":\"", ts, "\",\"dataType\":\"">>
    \o ReplaceToken(symbol, "_", "-") \o <<"@ticker", "\"}">>

\* the commands subscribe_candlestick(&[(symbol, interval)]) hands to send();
\* none when the translator panics
CandlestickCommands(receiver, symbol, interval, ts) ==
    CASE receiver = "BinanceSpotWSClient" ->
             IF to_candlestick_raw_channel(interval) = "panic" THEN <<>>
             ELSE << <<"{\"id\":9527,\"method\":\"", "SUBSCRIBE", "\",\"params\":[\"">>
                     \o ToLowercase(symbol)
                     \o <<"@", to_candlestick_raw_channel(interval), "\"]}">> >>
      [] receiver = "MexcSpotWSClient" ->
             << <<"{\"method\":\"", "SUBSCRIPTION", "\",\"params\":[\"",
                  "spot@public.kline.v3.api@">>
                \o RemoveToken(symbol, "_")
                \o <<"@", MexcIntervalToString(interval), "\"]}">> >>
      [] OTHER ->
             << <<"{\"id\":\"", ts, "\",\"dataType\":\"">>
                \o ReplaceToken(symbol, "_", "-")
                \o <<"@", "kline", ".", BingxIntervalToString(interval), "\"}">> >>

\* what a call of subscribe_ticker does: its result and the commands it
\* hands to send()
TickerOutcome(receiver, symbol, ts) ==
    CASE receiver \in {"WsClientWrapper::MexcSpot", "WsClientWrapper::MexcUserDataStream"} ->
             [result |-> "Err", sent |-> <<>>]
      [] receiver = "WsClientWrapper::BingxSwap" ->
             [result |-> "Ok", sent |-> <<BingxTickerCommand(symbol, ts)>>]
      [] receiver = "WsClientWrapper::Placeholder" ->
             [result |-> "Ok", sent |-> <<>>]
      [] receiver \in StubbedArms ->
             [result |-> "Err", sent |-> <<>>]
      [] receiver = "MexcSpotWSClient" ->
             [result |-> "panic", sent |-> <<>>]
      [] OTHER ->
             [result |-> "returned", sent |-> <<BingxTickerCommand(symbol, ts)>>]

\* the ledger after send(commands)
RECURSIVE LedgerAfterAll(_, _)
LedgerAfterAll(ledger, commands) ==
    IF commands = <<>> THEN ledger
    ELSE LedgerAfterAll(LedgerAfter(ledger, Head(commands)), Tail(commands))

\* subscribe_ticker(symbol)
SubscribeTicker ==
    /\ request.step = "call"
    /\ request.method = "subscribe_ticker"
    /\ LET o == TickerOutcome(request.receiver, request.symbol, request.ts) IN
       request' = [request EXCEPT !.step = "done",
                                  !.result = o.result,
                                  !.sent = o.sent,
                                  !.ledger = LedgerAfterAll(@, o.sent)]
    /\ UNCHANGED <<metricVars, pingVars, connVars, runVars, routerVars, intentVars,
                   deliveryVars, removed, receiver_dropped, decode_errors, connection_state, active_subscriptions,
                   reconnect_in_progress, message_channel, closed, conn_delivered,
                   construct, raw_message, outcome, ledger_case, user_stream>>

\* subscribe_candlestick(&[(symbol, interval)])
SubscribeCandlestick ==
    /\ request.step = "call"
    /\ request.method = "subscribe_candlestick"
    /\ LET commands == CandlestickCommands(request.receiver, request.symbol,
                                           request.interval, request.ts) IN
       request' = [request EXCEPT
                      !.step = "done",
                      !.result = IF /\ request.receiver = "BinanceSpotWSClient"
                                    /\ to_candlestick_raw_channel(request.interval) = "panic"
                                 THEN "panic" ELSE "returned",
                      !.sent = commands,
                      !.ledger = LedgerAfterAll(@, commands)]
    /\ UNCHANGED <<metricVars, pingVars, connVars, runVars, routerVars, intentVars,
                   deliveryVars, removed, receiver_dropped, decode_errors, connection_state, active_subscriptions,
                   reconnect_in_progress, message_channel, closed, conn_delivered,
                   construct, raw_message, outcome, ledger_case, user_stream>>

\* ------------------------------------- CryptoWsClient::subscribe_* (router)

\* the channel names the router's subscribe_* methods record
RouterChannels == {"orderbook", "trades", "ticker", "balance", "private_deals"}

\* ChannelType::PrivateDeals | ChannelType::AccountBalance, by as_str()
PrivateChannelNames == {"balance", "private_deals"}

\* what clients.get_mut(exchange_type) finds: a wrapper, or nothing
RouterClients ==
    {"WsClientWrapper::MexcSpot", "WsClientWrapper::MexcUserDataStream",
     "WsClientWrapper::BingxSwap", "WsClientWrapper::Placeholder",
     "WsClientWrapper::Binance", "not installed"}

\* the Result of WsClientWrapper::subscribe_orderbook / subscribe_trades /
\* subscribe_ticker / subscribe_account_balance / subscribe_private_deals
WrapperSubscribeResult(receiver, channel, symbol) ==
    CASE receiver = "WsClientWrapper::Placeholder" -> "Ok"
      [] channel = "ticker" -> TickerOutcome(receiver, symbol, 1).result
      [] channel \in {"orderbook", "trades"} ->
             IF receiver \in {"WsClientWrapper::MexcSpot", "WsClientWrapper::BingxSwap"}
             THEN "Ok" ELSE "Err"
      [] OTHER ->
             IF receiver = "WsClientWrapper::MexcUserDataStream" THEN "Ok" ELSE "Err"

\* SubscriptionManagerImpl::add_subscription: the body is empty
add_subscription(subscription_manager, channel, symbol) == subscription_manager

\* SubscriptionManagerImpl::get_subscriptions: every pair of every exchange
get_subscriptions(subscription_manager) == subscription_manager

\* CryptoWsClient::has_private_channel_subscriptions(channel_type)
has_private_channel_subscriptions(subscription_manager, channel_type) ==
    /\ channel_type \in PrivateChannelNames
    /\ \E sub \in get_subscriptions(subscription_manager) : sub[1] = channel_type

\* CryptoWsClient::subscribe_orderbook and its four siblings
RouterSubscribe ==
    /\ request.step = "call"
    /\ request.method = "router_subscribe"
    /\ LET r == IF request.receiver = "not installed" THEN "Err"
                ELSE WrapperSubscribeResult(request.receiver, request.channel,
                                            request.symbol) IN
       request' = [request EXCEPT
                      !.step = "done",
                      !.result = r,
                      !.subscription_manager =
                          IF r = "Ok"
                          THEN add_subscription(@, request.channel, request.symbol)
                          ELSE @]
    /\ UNCHANGED <<metricVars, pingVars, connVars, runVars, routerVars, intentVars,
                   deliveryVars, removed, receiver_dropped, decode_errors, connection_state, active_subscriptions,
                   reconnect_in_progress, message_channel, closed, conn_delivered,
                   construct, raw_message, outcome, ledger_case, user_stream>>

\* ------------------------------------------- CryptoWsClient::connect_all

\* the wrappers add_exchange has installed before connect_all is called
InstalledWrappers ==
    {"WsClientWrapper::MexcSpot", "WsClientWrapper::BingxSwap",
     "WsClientWrapper::Binance", "WsClientWrapper::Okx"}

\* the orders in which `for (exchange_type, client) in &mut self.clients`
\* can visit the installed clients: a HashMap iterates in any order
IterationOrders ==
    {order \in UNION {[1..n -> InstalledWrappers] : n \in 1..Cardinality(InstalledWrappers)} :
        \A i, j \in DOMAIN order : i # j => order[i] # order[j]}

\* the Result of WsClientWrapper::connect, that is of start_background_task
StartBackgroundTaskResult(wrapper) == IF wrapper \in StubbedArms THEN "Err" ELSE "Ok"

\* the position at which the loop of connect_all returns Err, 0 if none
FirstFailure(order) ==
    LET failing == {i \in DOMAIN order : StartBackgroundTaskResult(order[i]) = "Err"} IN
    IF failing = {} THEN 0 ELSE CHOOSE i \in failing : \A j \in failing : i <= j

\* CryptoWsClient::connect_all
ConnectAll ==
    /\ request.step = "call"
    /\ request.method = "connect_all"
    /\ LET order == request.order
           k == FirstFailure(order) IN
       request' = [request EXCEPT
                      !.step = "done",
                      !.result = IF k = 0 THEN "Ok" ELSE "Err",
                      !.failed = IF k = 0 THEN "none" ELSE order[k],
                      !.connection_states =
                          [w \in DOMAIN @ |->
                              LET i == CHOOSE i \in DOMAIN order : order[i] = w IN
                              IF k = 0 \/ i < k THEN "Connected"
                              ELSE IF i = k THEN "Error"
                              ELSE @[w]]]
    /\ UNCHANGED <<metricVars, pingVars, connVars, runVars, routerVars, intentVars,
                   deliveryVars, removed, receiver_dropped, decode_errors, connection_state, active_subscriptions,
                   reconnect_in_progress, message_channel, closed, conn_delivered,
                   construct, raw_message, outcome, ledger_case, user_stream>>

\* ----------------------------------------- symbol: to the wire and back

\* the topics subscribe(&[(topic, symbol)]) of each client translates
RoundTripTopics(exchange_type) ==
    IF exchange_type = "MexcSpot" THEN {"deals", "depth", "kline"}
    ELSE {"trade", "depth", "ticker"}

\* the channel name inside the subscription command of a symbol, which the
\* exchange repeats in the messages of that subscription:
\* MexcCommandTranslator::v3_subscription_command and
\* BingxCommandTranslator::subscription_command
WireChannel(exchange_type, topic, sym) ==
    IF exchange_type = "MexcSpot"
    THEN CASE topic = "deals" -> PublicDealsChannel \o <<"@">> \o RemoveToken(sym, "_")
           [] topic = "depth" -> PublicDepthChannel \o <<"@">> \o RemoveToken(sym, "_")
           [] OTHER -> <<"spot", "@", "public", ".", "kline", ".", "v3", ".", "api", "@">>
                       \o RemoveToken(sym, "_") \o <<"@", "Min1">>
    ELSE ReplaceToken(sym, "_", "-") \o <<"@", topic>>

\* the symbol the classifier reads back from a channel name
SymbolFromChannel(exchange_type, channel_str) ==
    IF exchange_type = "MexcSpot"
    THEN extract_mexc_symbol_from_channel(channel_str)
    ELSE extract_channel_and_symbol(exchange_type,
                                    [BlankPayload EXCEPT !.dataType = channel_str]).symbol

\* a symbol is translated into its channel name and read back from it
SymbolRoundTrip ==
    /\ request.step = "call"
    /\ request.method = "round_trip"
    /\ LET channel_str == WireChannel(request.exchange_type, request.topic,
                                      request.symbol) IN
       request' = [request EXCEPT
                      !.step = "done",
                      !.channel = channel_str,
                      !.back = SymbolFromChannel(request.exchange_type, channel_str)]
    /\ UNCHANGED <<metricVars, pingVars, connVars, runVars, routerVars, intentVars,
                   deliveryVars, removed, receiver_dropped, decode_errors, connection_state, active_subscriptions,
                   reconnect_in_progress, message_channel, closed, conn_delivered,
                   construct, raw_message, outcome, ledger_case, user_stream>>

\* ------------------------- BinanceCommandTranslator::translate_to_commands

\* market types of BinanceWSClient: spot, inverse, linear
MarketTypes == {"S", "I", "L"}

\* the (topic, symbol) pairs a caller subscribes to
BinanceTopics ==
    {[topic |-> t, symbol |-> sy] : t \in {"aggTrade", "depth@100ms"}, sy \in Symbols}

\* the lists of a given length that repeat a pattern of one or two topics
TopicLists(n) ==
    {[i \in 1..n |-> IF i % 2 = 1 THEN a ELSE b] : a \in BinanceTopics, b \in BinanceTopics}

\* bytes of format!("{}@{}", symbol.to_lowercase(), topic); to_lowercase
\* keeps the length of an ASCII symbol
RawTopicLen(t) == StrLen(t.symbol) + 1 + TokLen(t.topic)

\* bytes of the raw topics at positions lo..hi of a chunk
RECURSIVE SumRawTopicLen(_, _, _)
SumRawTopicLen(chunk, lo, hi) ==
    IF lo > hi THEN 0
    ELSE IF lo = hi THEN RawTopicLen(chunk[lo])
    ELSE SumRawTopicLen(chunk, lo, (lo + hi) \div 2)
         + SumRawTopicLen(chunk, (lo + hi) \div 2 + 1, hi)

\* bytes of serde_json::to_string(&raw_topics): brackets, each raw topic in
\* quotes, commas between them
RawTopicsLen(chunk) ==
    2 + SumRawTopicLen(chunk, 1, Len(chunk)) + 2 * Len(chunk)
      + (IF Len(chunk) > 0 THEN Len(chunk) - 1 ELSE 0)

\* bytes of the command BinanceCommandTranslator::topics_to_command formats:
\* {"id":9527,"method":"SUBSCRIBE","params":[...]}
TopicsToCommandLen(chunk, subscribe) ==
    (IF subscribe THEN 41 ELSE 43) + RawTopicsLen(chunk) + 1

\* max_num_topics of translate_to_commands for every market type
max_num_topics_any_market(market_type) == 1024

\* max_num_topics of translate_to_commands
max_num_topics(market_type) == IF market_type = "S" THEN 1024 ELSE 200

\* how many topics from the front of the list go into the next command: as
\* many as keep the command within max_bytes and max_topics, at least one
FrameFit(topics, subscribe, max_bytes, max_topics) ==
    LET fits == {k \in 1..Len(topics) :
                    /\ k <= max_topics
                    /\ k = 1 \/ TopicsToCommandLen(SubSeq(topics, 1, k), subscribe)
                                    <= max_bytes}
    IN CHOOSE k \in fits : \A j \in fits : j <= k

\* utils::ensure_frame_size: the topic list cut into the chunks of
\* successive commands
RECURSIVE ensure_frame_size(_, _, _, _)
ensure_frame_size(topics, subscribe, max_bytes, max_topics) ==
    IF topics = <<>> THEN <<>>
    ELSE LET k == FrameFit(topics, subscribe, max_bytes, max_topics) IN
         <<SubSeq(topics, 1, k)>>
         \o ensure_frame_size(SubSeq(topics, k + 1, Len(topics)), subscribe,
                              max_bytes, max_topics)

\* BinanceCommandTranslator::translate_to_commands(subscribe, topics)
TranslateToCommands ==
    /\ request.step = "call"
    /\ request.method = "translate_to_commands"
    /\ request' =
           [request EXCEPT
               !.step = "done",
               !.commands = ensure_frame_size(request.topics, request.subscribe,
                                              WS_FRAME_SIZE,
                                              max_num_topics(request.market_type))]
    /\ UNCHANGED <<metricVars, pingVars, connVars, runVars, routerVars, intentVars,
                   deliveryVars, removed, receiver_dropped, decode_errors, connection_state, active_subscriptions,
                   reconnect_in_progress, message_channel, closed, conn_delivered,
                   construct, raw_message, outcome, ledger_case, user_stream>>

\* ------------------------------------------------------- specifications

\* The three specifications below run the same supervisors under three
\* kinds of caller and peer.  What an action left out of a specification
\* does to the variables that specification's properties read is done
\* there by an action that is kept: a ping-timeout close ends the
\* connection as PeerDrop does, and a ping task that stops only changes
\* the ping task's own variables.

\* subscriptions, connection loss, reconnection and close
Next ==
    \/ \E e \in Sup, symbol \in Symbols : \E ts \in Clock(e) : Subscribe(e, symbol, ts)
    \/ \E e \in Sup, symbol \in Symbols : \E ts \in Clock(e) : Unsubscribe(e, symbol, ts)
    \/ \E e \in Sup : DirectClose(e)
    \/ DisconnectAll
    \/ \E e \in Sup : ConnectExchange(e)
    \/ \E e \in Sup : DirectRun(e)
    \/ \E e \in Sup : RunStart(e)
    \/ \E e \in Sup : RecvClose(e)
    \/ \E e \in Sup : PeerDrop(e)
    \/ \E e \in Sup : RecvNone(e)
    \/ \E e \in Sup : RunCheck(e)
    \/ \E e \in Sup : ReconnectFail(e)
    \/ \E e \in Sup : ReconnectOk(e)
    \/ \E e \in Sup : ReplayStep(e)
    \/ \E e \in Sup : ReplayDone(e)
    \/ \E e \in Sup : RunGiveUp(e)

Spec == Init /\ [][Next]_vars

\* the heartbeat: pings, pongs, the health check and reconnection
NextHeartbeat ==
    \/ \E e \in Sup : ConnectExchange(e)
    \/ \E e \in Sup : DirectRun(e)
    \/ \E e \in Sup : RunStart(e)
    \/ \E e \in Sup : RecvPong(e)
    \/ \E e \in Sup : RecvClose(e)
    \/ \E e \in Sup : PeerDrop(e)
    \/ \E e \in Sup : RecvNone(e)
    \/ \E e \in Sup : RunCheck(e)
    \/ \E e \in Sup : ReconnectFail(e)
    \/ \E e \in Sup : ReconnectOk(e)
    \/ \E e \in Sup : ReplayDone(e)
    \/ \E e \in Sup : RunGiveUp(e)
    \/ \E e \in Sup : PingTick(e)
    \/ \E e \in Sup : HealthCheck(e)

SpecHeartbeat == Init /\ [][NextHeartbeat]_vars

\* the router with two exchanges that deliver messages
NextRouter ==
    \/ \E e \in Sup : ConnectExchange(e)
    \/ \E e \in Sup : RunStart(e)
    \/ \E e \in Sup, payload \in Payloads : RecvNormal(e, payload)
    \/ NextMessage
    \/ NextPrivateMessage
    \/ NextPublicMessage

SpecRouter == InitRouter /\ [][NextRouter]_vars

\* the router with one exchange that delivers messages
InitDelivery == \E e \in RouterExchanges : InitWith({e}) /\ NoCalls

SpecDelivery == InitDelivery /\ [][NextRouter]_vars

\* a supervisor from the call of its constructor on
InitConnect ==
    /\ InitWith({})
    /\ construct \in {[step |-> "connecting", exchange |-> e, attempt |-> 1,
                          error |-> "none", backoff_time |-> connect_backoff_time(e),
                          first_wait |-> 0, last_wait |-> 0] : e \in Exchanges}
    /\ raw_message = NoCall
    /\ outcome = NoCall
    /\ ledger_case = NoCall
    /\ user_stream = NoCall
    /\ request = NoCall

NextConnect ==
    \/ \E err \in ConnectErrors : ConnectFail(err)
    \/ ConnectOk
    \/ \E e \in Sup : ConnectExchange(e)
    \/ \E e \in Sup : DirectRun(e)
    \/ \E e \in Sup : RunStart(e)
    \/ \E e \in Sup : PeerDrop(e)
    \/ \E e \in Sup : RecvNone(e)
    \/ \E e \in Sup : RunCheck(e)
    \/ \E e \in Sup : ReconnectFail(e)
    \/ \E e \in Sup : ReconnectOk(e)
    \/ \E e \in Sup : ReplayDone(e)
    \/ \E e \in Sup : RunGiveUp(e)

SpecConnect == InitConnect /\ [][NextConnect]_vars

\* The classifier applied once to each payload of ClassifierInputs.
InitClassifier ==
    /\ InitWith({})
    /\ construct = NoCall
    /\ raw_message \in {[step |-> "input", exchange_type |-> i.exchange_type,
                          data |-> i.data] : i \in ClassifierInputs}
    /\ outcome = NoCall
    /\ ledger_case = NoCall
    /\ user_stream = NoCall
    /\ request = NoCall

NextClassifier == Classify

SpecClassifier == InitClassifier /\ [][NextClassifier]_vars

\* subscribe then unsubscribe on every ledger of every exchange
InitLedger ==
    /\ InitWith({})
    /\ user_stream = NoCall
    /\ request = NoCall
    /\ construct = NoCall
    /\ raw_message = NoCall
    /\ outcome = NoCall
    /\ \E e \in Exchanges, sy \in Symbols :
          \E l \in LedgersOf(e), t1 \in Clock(e), t2 \in Clock(e) :
             ledger_case = [step |-> "start", exchange |-> e, symbol |-> sy,
                            sub_ts |-> t1, unsub_ts |-> t2, before |-> l,
                            ledger |-> l]

NextLedger == LedgerSubscribe \/ LedgerUnsubscribe

SpecLedger == InitLedger /\ [][NextLedger]_vars

\* the router's clients connected, dropped by the peer and removed
NextRemove ==
    \/ \E e \in Sup : ConnectExchange(e)
    \/ \E e \in Sup : RemoveExchange(e)
    \/ \E e \in Sup : RunStart(e)
    \/ \E e \in Sup : PeerDrop(e)
    \/ \E e \in Sup : RecvNone(e)
    \/ \E e \in Sup : RunCheck(e)
    \/ \E e \in Sup : ReconnectFail(e)
    \/ \E e \in Sup : ReconnectOk(e)
    \/ \E e \in Sup : ReplayDone(e)
    \/ \E e \in Sup : RunGiveUp(e)

SpecRemove == InitRouter /\ [][NextRemove]_vars

\* the heartbeat of a supervisor whose caller may call close()
NextClose ==
    \/ \E e \in Sup : ConnectExchange(e)
    \/ \E e \in Sup : DirectRun(e)
    \/ \E e \in Sup : DirectClose(e)
    \/ \E e \in Sup : RunStart(e)
    \/ \E e \in Sup : RecvPong(e)
    \/ \E e \in Sup : RecvClose(e)
    \/ \E e \in Sup : PeerDrop(e)
    \/ \E e \in Sup : RecvNone(e)
    \/ \E e \in Sup : RunCheck(e)
    \/ \E e \in Sup : ReconnectFail(e)
    \/ \E e \in Sup : ReconnectOk(e)
    \/ \E e \in Sup : ReplayDone(e)
    \/ \E e \in Sup : RunGiveUp(e)
    \/ \E e \in Sup : PingTick(e)
    \/ \E e \in Sup : HealthCheck(e)

SpecClose == Init /\ [][NextClose]_vars

\* a supervisor whose wrapper is replaced or whose receiver is dropped
NextReplace ==
    \/ \E e \in Sup : ConnectExchange(e)
    \/ \E e \in Sup : DirectRun(e)
    \/ \E e \in Sup : AddExchangeAgain(e)
    \/ \E e \in Sup : DropReceiver(e)
    \/ \E e \in Sup : DirectClose(e)
    \/ \E e \in Sup : RunStart(e)
    \/ \E e \in Sup : RecvNormalNoReceiver(e)
    \/ \E e \in Sup : RecvPong(e)
    \/ \E e \in Sup : RecvClose(e)
    \/ \E e \in Sup : PeerDrop(e)
    \/ \E e \in Sup : RecvNone(e)
    \/ \E e \in Sup : RunCheck(e)
    \/ \E e \in Sup : ReconnectFail(e)
    \/ \E e \in Sup : ReconnectOk(e)
    \/ \E e \in Sup : ReplayDone(e)
    \/ \E e \in Sup : RunGiveUp(e)
    \/ \E e \in Sup : PingTick(e)
    \/ \E e \in Sup : HealthCheck(e)

SpecReplace == Init /\ [][NextReplace]_vars

\* the receive loop of one supervisor on every kind of frame
NextFrames ==
    \/ \E e \in Sup, payload \in Payloads : RecvNormal(e, payload)
    \/ \E e \in Sup, frame \in Frames : RecvFrame(e, frame)
    \/ \E e \in Sup : ConnectExchange(e)
    \/ \E e \in Sup : DirectRun(e)
    \/ \E e \in Sup : RunStart(e)
    \/ \E e \in Sup : RecvClose(e)
    \/ \E e \in Sup : PeerDrop(e)
    \/ \E e \in Sup : RecvNone(e)
    \/ \E e \in Sup : RunCheck(e)
    \/ \E e \in Sup : ReconnectFail(e)
    \/ \E e \in Sup : ReconnectOk(e)
    \/ \E e \in Sup : ReplayDone(e)
    \/ \E e \in Sup : RunGiveUp(e)

SpecFrames == Init /\ [][NextFrames]_vars

\* MexcUserDataStreamWSClient::new(listen_key, ..) has returned: the url of
\* the supervisor holds the key
InitUserStream ==
    /\ InitWith({"mexc"})
    /\ construct = NoCall
    /\ raw_message = NoCall
    /\ outcome = NoCall
    /\ ledger_case = NoCall
    /\ request = NoCall
    /\ user_stream \in {[step |-> "streaming", url_key |-> k, held_key |-> k,
                          keep_alive |-> "none", status |-> "none",
                          failures |-> 0] : k \in ListenKeys}

NextUserStream ==
    \/ \E status \in KeepAliveStatuses : KeepAlive(status)
    \/ \E k \in ListenKeys : GetListenKey(k)
    \/ \E e \in Sup : ConnectExchange(e)
    \/ \E e \in Sup : RunStart(e)
    \/ \E e \in Sup, payload \in Payloads : RecvNormal(e, payload)
    \/ \E e \in Sup : PeerDrop(e)
    \/ \E e \in Sup : RecvNone(e)
    \/ \E e \in Sup : RunCheck(e)
    \/ \E e \in Sup : ReconnectFail(e)
    \/ \E e \in Sup : ReconnectOk(e)
    \/ \E e \in Sup : ReplayDone(e)
    \/ \E e \in Sup : RunGiveUp(e)

SpecUserStream == InitUserStream /\ [][NextUserStream]_vars

\* a supervisor of MEXC or BingX and the pings its exchange sends
NextPing ==
    \/ \E e \in Sup : \E ping \in InboundPings(e) : RecvPingText(e, ping)
    \/ \E e \in Sup, payload \in Payloads : RecvNormal(e, payload)
    \/ \E e \in Sup : ConnectExchange(e)
    \/ \E e \in Sup : RunStart(e)
    \/ \E e \in Sup : RecvClose(e)
    \/ \E e \in Sup : PeerDrop(e)
    \/ \E e \in Sup : RecvNone(e)
    \/ \E e \in Sup : RunCheck(e)
    \/ \E e \in Sup : ReconnectFail(e)
    \/ \E e \in Sup : ReconnectOk(e)
    \/ \E e \in Sup : ReplayDone(e)
    \/ \E e \in Sup : RunGiveUp(e)

SpecPing == InitDelivery /\ [][NextPing]_vars

\* one call of translate_to_commands on a Binance translator
InitTranslate ==
    /\ InitWith({})
    /\ construct = NoCall
    /\ raw_message = NoCall
    /\ outcome = NoCall
    /\ ledger_case = NoCall
    /\ user_stream = NoCall
    /\ \E m \in MarketTypes, sub \in BOOLEAN, n \in {0, 1, 2} \cup ((MaxTopics - 4)..MaxTopics) :
          \E l \in TopicLists(n) :
             request = [step |-> "call", method |-> "translate_to_commands",
                        market_type |-> m, subscribe |-> sub, topics |-> l,
                        commands |-> <<>>]

NextTranslate == TranslateToCommands

SpecTranslate == InitTranslate /\ [][NextTranslate]_vars

\* the exchange a receiver talks to, for what its translator reads from the clock
ReceiverClock(receiver) ==
    IF receiver \in {"WsClientWrapper::BingxSwap", "BingxSwapWSClient"}
    THEN Clock("bingx") ELSE {"unread"}

\* one call of subscribe_ticker or of subscribe_candlestick on a client
\* with an empty ledger, or one symbol taken to its channel name and back
InitSubscribe ==
    /\ InitWith({})
    /\ construct = NoCall
    /\ raw_message = NoCall
    /\ outcome = NoCall
    /\ ledger_case = NoCall
    /\ user_stream = NoCall
    /\ \/ \E r \in TickerReceivers, sy \in Symbols :
             \E t \in ReceiverClock(r) :
                request = [step |-> "call", method |-> "subscribe_ticker",
                           receiver |-> r, symbol |-> sy, interval |-> 0, ts |-> t,
                           result |-> "none", sent |-> <<>>, before |-> <<>>,
                           ledger |-> <<>>]
       \/ \E r \in CandlestickReceivers, sy \in Symbols, i \in Intervals :
             \E t \in ReceiverClock(r) :
                request = [step |-> "call", method |-> "subscribe_candlestick",
                           receiver |-> r, symbol |-> sy, interval |-> i, ts |-> t,
                           result |-> "none", sent |-> <<>>, before |-> <<>>,
                           ledger |-> <<>>]
       \/ \E x \in {"MexcSpot", "BingxSwap"}, sy \in Symbols :
             \E t \in RoundTripTopics(x) :
                request = [step |-> "call", method |-> "round_trip",
                           exchange_type |-> x, topic |-> t, symbol |-> sy,
                           channel |-> Null, back |-> Null]
       \/ \E r \in RouterClients, ch \in RouterChannels, sy \in Symbols :
             request = [step |-> "call", method |-> "router_subscribe",
                        receiver |-> r, channel |-> ch,
                        symbol |-> IF ch \in PrivateChannelNames THEN ACCOUNT ELSE sy,
                        result |-> "none", subscription_manager |-> {}]
       \/ \E order \in IterationOrders :
             request = [step |-> "call", method |-> "connect_all", order |-> order,
                        result |-> "none", failed |-> "none",
                        connection_states |->
                            [w \in {order[i] : i \in DOMAIN order} |-> "Disconnected"]]

NextSubscribe ==
    SubscribeTicker \/ SubscribeCandlestick \/ SymbolRoundTrip \/ RouterSubscribe
        \/ ConnectAll

SpecSubscribe == InitSubscribe /\ [][NextSubscribe]_vars

\* ------------------------------------------------------------ properties

\* the replay loop of e has gone through its whole clone on a connection
\* that is still open
ReplayComplete(e) ==
    /\ run_pc[e] = "replay"
    /\ replay_idx[e] > Len(subscriptions[e])
    /\ conn_open[e]

\* the subscribe commands the translator of e can produce for a symbol
CommandsFor(e, symbol) == {SubscribeCommand(e, symbol, ts) : ts \in Clock(e)}

\* C1: in every reconnection cycle that reaches Connected, the replay loop
\* works on a clone that equals the ledger at the moment of reconnection,
\* and what it has sent on the new connection is that clone up to the
\* loop's position: at the end of the loop every entry of the ledger has
\* been re-sent and nothing outside the ledger has been sent.
ReplayEqualsLedger ==
    /\ [](\A e \in Sup :
             (run_pc[e] = "replay" /\ conn_open[e])
                 => replayed[e] = SubSeq(subscriptions[e], 1, replay_idx[e] - 1))
    /\ [][\A e \in Sup :
             (run_pc[e] = "reconnect_attempt" /\ run_pc'[e] = "replay")
                 => /\ connection_state'[e] = "Connected"
                    /\ subscriptions'[e] = active_subscriptions[e]
                    /\ replayed'[e] = <<>>]_vars

\* a cycle has replayed a ledger of two different commands completely
ReplayEqualsLedgerWitness ==
    \E e \in Sup :
        /\ ReplayComplete(e)
        /\ Len(subscriptions[e]) >= 2
        /\ subscriptions[e][1] # subscriptions[e][2]
        /\ replayed[e] = subscriptions[e]
        /\ connection_state[e] = "Connected"

\* C2: at every point in time the ledger holds exactly the subscriptions
\* the caller has requested and not since unsubscribed, whichever command
\* format the exchange uses.
LedgerReflectsIntent ==
    \A e \in Sup :
        /\ \A symbol \in Range(intended[e]) :
               \E command \in CommandsFor(e, symbol) :
                   command \in Range(active_subscriptions[e])
        /\ \A command \in Range(active_subscriptions[e]) :
               \E symbol \in Range(intended[e]) : command \in CommandsFor(e, symbol)

\* C3: the fifth failed attempt of a reconnection cycle puts the
\* supervisor into Failed and ends reconnect(); a supervisor in Failed is
\* not inside reconnect(), and once reconnect() has given up no further
\* attempt is recorded and run() never goes back to connecting.
FailedAfterMaxAttempts ==
    /\ [](\A e \in Sup :
             IsFailed(connection_state[e]) => run_pc[e] \in {"reconnect_none", "stopped"})
    /\ [][\A e \in Sup :
             /\ (/\ run_pc[e] = "reconnect_attempt"
                 /\ attempt[e] = MAX_RECONNECT_ATTEMPTS
                 /\ reconnection_attempts'[e] # reconnection_attempts[e]
                 /\ run_pc'[e] # "replay")
                    => /\ connection_state'[e] = FailedMax
                       /\ run_pc'[e] = "reconnect_none"
             /\ run_pc[e] \in {"reconnect_none", "stopped"}
                    => /\ reconnection_attempts'[e] = reconnection_attempts[e]
                       /\ run_pc'[e] \in {"reconnect_none", "stopped"}
                       /\ conn_open'[e] = conn_open[e]]_vars

\* five attempts of one cycle have failed, the supervisor is Failed and
\* run() has stopped
FailedAfterMaxAttemptsWitness ==
    \E e \in Sup :
        /\ IsFailed(connection_state[e])
        /\ run_pc[e] = "stopped"
        /\ attempt[e] = MAX_RECONNECT_ATTEMPTS
        /\ reconnection_attempts[e] >= MAX_RECONNECT_ATTEMPTS
        /\ ~conn_open[e]

\* C4: once close() has been called the state is Disconnected and stays
\* Disconnected, and no reconnection attempt and no replay happens
\* afterwards.
CloseIsFinal ==
    [][\A e \in Sup :
          closed[e] => /\ connection_state'[e] = "Disconnected"
                       /\ reconnection_attempts'[e] = reconnection_attempts[e]
                       /\ Len(replayed'[e]) <= Len(replayed[e])]_vars

\* C5: on every connection of the supervisor, after a pong has been
\* received and until the next ping is sent, the counter the ping task
\* increments and checks is 0.
PongResetsCounter ==
    \A e \in Sup : pong_since_ping[e] => PingCounter(e) = 0

\* C6: when more than two pings are unanswered on a Connected supervisor
\* and the health check has sent the close frame, the state is
\* Reconnecting while reconnect() runs.
PingTimeoutReconnecting ==
    \A e \in Sup :
        (last_close[e] = "ping_timeout" /\ run_pc[e] = "reconnect_attempt")
            => connection_state[e] = "Reconnecting"

\* C7: a subscription added while the supervisor is reconnecting is in the
\* ledger at once, and the replay on the next connection has sent it when
\* it ends.
AddedWhileReconnectingKept ==
    \A e \in Sup :
        /\ \A symbol \in added_reconnecting[e] :
               \E command \in CommandsFor(e, symbol) :
                   command \in Range(active_subscriptions[e])
        /\ ReplayComplete(e)
               => \A symbol \in added_reconnecting[e] :
                      \E command \in CommandsFor(e, symbol) :
                          command \in Range(replayed[e])

\* C8: when a supervisor with subscriptions A, B, C loses its connection
\* and reconnects, the replay sends exactly one subscribe command for each,
\* in the order they were added, before any data message of the new
\* connection has been delivered.
ReplayInOrderBeforeData ==
    \A e \in Sup :
        ReplayComplete(e)
            => /\ Len(replayed[e]) = Len(intent_at_reconnect[e])
               /\ \A i \in 1..Len(intent_at_reconnect[e]) :
                      replayed[e][i] \in CommandsFor(e, intent_at_reconnect[e][i])
               /\ ~conn_delivered[e]

\* C9: when a supervisor has exhausted its attempts and is Failed, the
\* router's state for that exchange reports the failure and is no longer
\* Connected.
RouterReportsFailure ==
    \A e \in Sup :
        (e \in RouterExchanges /\ IsFailed(connection_state[e]))
            => connection_states[e] = "Error"

\* C10: a data message pending on a Connected exchange is returned after
\* fewer than StarveLimit calls of next_message that returned messages of
\* other exchanges.
NoStarvation ==
    \A e \in Sup : starved[e] < StarveLimit

\* C11: whatever mix of next_message, next_private_message and
\* next_public_message the caller uses, no data message is taken from a
\* supervisor's channel without being returned to the caller.
NoEnvelopeLost ==
    \A e \in Sup : lost[e] = {}

\* C12: next_message returns None only when no Connected supervisor has a
\* data message waiting in its channel.
NoneOnlyWhenNothingPending ==
    [][(NextMessage /\ last_message' = NoMessage)
           => \A e \in Sup : ~Pending(e)]_vars

\* C13: the messages of one exchange and channel are returned to the
\* caller in the order in which run() received them.
DeliveryInArrivalOrder ==
    \A e \in Sup :
        \A i \in 1..Len(returned[e]), j \in 1..Len(returned[e]) :
            (i < j /\ returned[e][i].channel = returned[e][j].channel)
                => returned[e][i].seq < returned[e][j].seq

\* two messages of one channel have been returned while a message of the
\* other channel of the same exchange arrived between them
DeliveryInArrivalOrderWitness ==
    \E e \in Sup :
        /\ Len(returned[e]) >= 2
        /\ \E i \in 1..Len(returned[e]), j \in 1..Len(returned[e]) :
               /\ returned[e][i].channel = returned[e][j].channel
               /\ returned[e][j].seq >= returned[e][i].seq + 2

\* C14: every change of a supervisor's connection state is one of
\* Disconnected -> Connecting, Connecting -> Connected or Failed,
\* Connected -> Reconnecting, Reconnecting -> Connected or Failed, or any
\* state -> Disconnected by close().
OnlyPermittedTransitions ==
    [][LET Name(state) == IF IsFailed(state) THEN "Failed" ELSE state
           Permitted == {<<"Disconnected", "Connecting">>,
                         <<"Connecting", "Connected">>,
                         <<"Connecting", "Failed">>,
                         <<"Connected", "Reconnecting">>,
                         <<"Reconnecting", "Connected">>,
                         <<"Reconnecting", "Failed">>}
       IN \A e \in Sup :
              Name(connection_state'[e]) # Name(connection_state[e])
                  => \/ <<Name(connection_state[e]), Name(connection_state'[e])>>
                            \in Permitted
                     \/ /\ connection_state'[e] = "Disconnected"
                        /\ closed'[e]
                        /\ run_pc'[e] = run_pc[e]]_vars

\* C15: a call of the constructor in which every attempt fails with a
\* transport error, a timeout or HTTP 429 does not end in a panic of the
\* caller's task: the failure is reported as a state or a result.
ConnectFailureReported ==
    ~(construct.step = "panicked" /\ construct.error \in {"http_429", "other"})

\* The payload of the call is one on which the private predicate and a
\* public extraction both match.
BothMatch ==
    /\ raw_message.data.json
    /\ is_private_message(raw_message.exchange_type, raw_message.data)
    /\ extract_channel_and_symbol(raw_message.exchange_type,
                                  raw_message.data).channel \in PublicChannels

\* The payload is a MEXC spot one with a deals channel in c and the
\* private-deals marker in d.symbol.
MixedFormatFill ==
    /\ raw_message.exchange_type = "MexcSpot"
    /\ raw_message.data.json
    /\ raw_message.data.c # Null
    /\ Contains(raw_message.data.c, <<"deal", "s">>)
    /\ raw_message.data.d.present
    /\ Contains(raw_message.data.d.symbol, <<"private", ".", "deal", "s">>)

UndeterminedIsDropped ==
    (outcome.step = "done" /\ outcome.message.kind = "Data") =>
        outcome.message.symbol # UNKNOWN

\* C18: subscribing twice to the same (channel, symbol) leaves one ledger
\* entry: no command is in a supervisor's ledger twice.
OneEntryPerSubscription ==
    \A e \in Sup :
        \A i, j \in 1..Len(active_subscriptions[e]) :
            i # j => active_subscriptions[e][i] # active_subscriptions[e][j]

\* The subscribe command of the case is not in the ledger it starts from.
NotYetSubscribed ==
    SubscribeCommand(ledger_case.exchange, ledger_case.symbol, ledger_case.sub_ts)
        \notin Range(ledger_case.before)

\* C19 as stated: subscribe then unsubscribe of the same (channel, symbol)
\* leaves the ledger as it was before the subscribe, whatever it held.
SubscribeUnsubscribeRestoresAlways ==
    ledger_case.step = "done" => ledger_case.ledger = ledger_case.before

\* C19: subscribe then unsubscribe of a (channel, symbol) that the ledger did
\* not hold before leaves the ledger as it was before the subscribe, for
\* every exchange's command format.
SubscribeUnsubscribeRestores ==
    (ledger_case.step = "done" /\ NotYetSubscribed) =>
        ledger_case.ledger = ledger_case.before

SubscribeUnsubscribeRestoresWitness ==
    /\ ledger_case.step = "done"
    /\ NotYetSubscribed
    /\ ledger_case.before # <<>>
    /\ ledger_case.ledger = ledger_case.before

\* C20: once remove_exchange has returned for an exchange, its supervisor's
\* read loop and heartbeat task have terminated and it makes no further
\* connection attempt.
RemovedIsShutDown ==
    /\ [](\A e \in Sup :
            removed[e] => /\ run_pc[e] \in {"idle", "stopped"}
                          /\ ~ping_running[e])
    /\ [][\A e \in Sup :
            removed[e] => reconnection_attempts'[e] = reconnection_attempts[e]]_vars

\* C21: after close() the heartbeat task is gone: no heartbeat task of the
\* supervisor is alive and none emits a ping.
NoHeartbeatAfterClose ==
    /\ [](\A e \in Sup : closed[e] => ~ping_running[e])
    /\ [][\A e \in Sup :
            closed[e] => num_unanswered_ping'[e] = num_unanswered_ping[e]]_vars

\* The numbers of attempts that can be in flight: one attempt at most, and
\* only inside the loop of reconnect().
InFlight(e) == IF run_pc[e] = "reconnect_attempt" THEN {0, 1} ELSE {0}

\* C22: for every supervisor total_connections is the sum of
\* successful_connections, failed_connections and the attempts in flight,
\* so successful_connections never exceeds total_connections.
CountersConsistent ==
    \A e \in Sup :
        /\ \E n \in InFlight(e) :
              metrics[e].total_connections =
                  metrics[e].successful_connections
                  + metrics[e].failed_connections + n
        /\ metrics[e].successful_connections <= metrics[e].total_connections

\* C23: every heartbeat timeout, the forced close after more than
\* PingThreshold unanswered pings, increments ping_failures.
PingTimeoutCounted ==
    [][\A e \in Sup :
          (last_close'[e] = "ping_timeout" /\ last_close[e] # "ping_timeout")
              => metrics'[e].ping_failures = metrics[e].ping_failures + 1]_vars

\* C24: binary frames that cannot be decoded, several in a row, start a
\* reconnection cycle: the supervisor never sits in the receive loop with
\* MaxDecodeErrors of them behind it.
CodecErrorsStartReconnect ==
    \A e \in Sup : run_pc[e] = "recv" => decode_errors[e] < MaxDecodeErrors

\* C25: no inbound frame makes the run() task of a supervisor panic.
NoFramePanics ==
    \A e \in Sup : run_pc[e] # "panicked"

\* C26: when the keep-alive of the listen key has failed with status 401 for
\* the last of its retries, the supervisor is put into Reconnecting.
KeepAliveFailureForcesReconnect ==
    [][(/\ user_stream'.status = "401"
        /\ user_stream'.failures = MaxKeepAliveFailures
        /\ user_stream.failures < MaxKeepAliveFailures)
           => \A e \in Sup : connection_state'[e] = "Reconnecting"]_vars

\* the receivers that have no ticker channel
NoTicker ==
    {"WsClientWrapper::MexcSpot", "WsClientWrapper::MexcUserDataStream",
     "MexcSpotWSClient"} \cup StubbedArms

\* C27: subscribe_ticker on a receiver without a ticker channel returns an
\* error to its caller, hands no command to send() and leaves the ledger as
\* it was.
UnsupportedChannelReturnsError ==
    (/\ request.step = "done"
     /\ request.method = "subscribe_ticker"
     /\ request.receiver \in NoTicker)
        => /\ request.result = "Err"
           /\ request.sent = <<>>
           /\ request.ledger = request.before

\* the intervals the exchange of a receiver has a name for
SupportedIntervals(receiver) ==
    CASE receiver = "BinanceSpotWSClient" -> BinanceIntervals
      [] receiver = "MexcSpotWSClient" -> MexcIntervals
      [] OTHER -> BingxIntervals

\* C28: subscribe_candlestick with an interval the exchange has no name for
\* hands no command to send().
UnknownIntervalIsRejected ==
    (/\ request.step = "done"
     /\ request.method = "subscribe_candlestick"
     /\ request.interval \notin SupportedIntervals(request.receiver))
        => request.sent = <<>>

\* C29: a canonical symbol translated into the channel name of its
\* subscription and read back from that channel name is the same symbol.
RoundTripRestoresSymbol ==
    (request.step = "done" /\ request.method = "round_trip")
        => request.back = request.symbol

\* tokens that are upper-case asset codes
AssetCodes == {"BTC", "ETH", "USDT", "USDC", "MX", "CLORE"}

\* BASE_QUOTE: upper case, the two asset codes separated by an underscore
IsCanonical(sym) ==
    /\ sym \in Seq(AssetCodes \cup {"_"})
    /\ Len(sym) = 3
    /\ sym[1] \in AssetCodes
    /\ sym[2] = "_"
    /\ sym[3] \in AssetCodes

\* C30: the symbol of every envelope the classifier returns is in canonical
\* form or is the literal ACCOUNT.
EnvelopeSymbolIsCanonical ==
    (outcome.step = "done" /\ outcome.message.kind = "Data") =>
        (outcome.message.symbol = ACCOUNT \/ IsCanonical(outcome.message.symbol))

\* the reply the exchange expects to a ping: "Pong", {"pong":N} with the N of
\* the ping, {"method":"PONG"}
MatchingReply(ping) ==
    CASE ping.form = "Ping" -> [form |-> "Pong", lit |-> "none"]
      [] ping.form = "json_ping" -> [form |-> "json_pong", lit |-> ping.lit]
      [] OTHER -> [form |-> "method_PONG", lit |-> "none"]

\* C31: an inbound ping that wants a reply puts exactly the matching reply
\* on the outbound queue of the supervisor and is not forwarded to the
\* caller as data.
PingIsAnswered ==
    request.step = "handled" =>
        /\ request.queued = MatchingReply(request.ping)
        /\ ~request.forwarded

\* C32: every command a Binance translator generates for a topic list is at
\* most 4096 bytes long and holds at most 1024 topics on spot, 200 on the
\* futures markets.
BinanceCommandsWithinLimits ==
    (request.step = "done" /\ request.method = "translate_to_commands") =>
        \A i \in 1..Len(request.commands) :
            /\ TopicsToCommandLen(request.commands[i], request.subscribe) <= 4096
            /\ Len(request.commands[i]) <=
                   (IF request.market_type = "S" THEN 1024 ELSE 200)

\* a futures list is cut after 200 topics that would have fitted one frame
\* together with the rest
BinanceCommandsWithinLimitsWitness ==
    /\ request.step = "done"
    /\ request.method = "translate_to_commands"
    /\ request.market_type = "L"
    /\ Len(request.commands) = 2
    /\ Len(request.commands[1]) = 200
    /\ TopicsToCommandLen(request.topics, request.subscribe) <= 4096

\* the base and the cap of the wait, per exchange
BackoffBase(exchange) == IF exchange \in {"mexc", "binance"} THEN 5 ELSE 2

BackoffCap(exchange) ==
    CASE exchange = "binance" -> 120
      [] exchange = "mexc" -> 300
      [] OTHER -> 60

\* the base doubled a - 1 times, never above the cap
RECURSIVE CappedDoubling(_, _, _)
CappedDoubling(base, cap, a) ==
    IF a <= 1 THEN Min(base, cap) ELSE Min(CappedDoubling(base, cap, a - 1) * 2, cap)

\* C33: in a connection cycle and in a reconnection cycle the first wait is
\* at least the base of the exchange (2 s, 5 s for MEXC and Binance), no
\* wait exceeds the cap (60 s, 120 s for Binance, 300 s for MEXC), and the
\* wait before the a-th reconnection attempt is the base doubled a - 1 times.
BackoffAsSpecified ==
    /\ (construct.step # "none" /\ construct.attempt > 1) =>
           /\ construct.first_wait >= BackoffBase(construct.exchange)
           /\ construct.last_wait <= BackoffCap(construct.exchange)
    /\ \A e \in Sup :
           run_pc[e] = "reconnect_attempt" =>
               reconnect_backoff_time(e, attempt[e]) =
                   CappedDoubling(BackoffBase(e), IF e = "binance" THEN 120 ELSE 60,
                                  attempt[e])

\* C34: after a router subscribe_* call for (channel, symbol) returns Ok,
\* get_subscriptions reports that subscription, and for a private channel
\* has_private_channel_subscriptions reports it too.
SubscriptionIsReported ==
    (request.step = "done" /\ request.method = "router_subscribe"
         /\ request.result = "Ok") =>
        /\ <<request.channel, request.symbol>>
               \in get_subscriptions(request.subscription_manager)
        /\ request.channel \in PrivateChannelNames =>
               has_private_channel_subscriptions(request.subscription_manager,
                                                 request.channel)

\* C35: connect_all attempts every installed exchange and reports the first
\* failure: when it returns, the state of every installed exchange is
\* Connected or an error state, none is left Disconnected or Connecting.
ConnectAllAttemptsEveryExchange ==
    (request.step = "done" /\ request.method = "connect_all") =>
        /\ request.result = "Err" <=> \E w \in DOMAIN request.connection_states :
                                         StartBackgroundTaskResult(w) = "Err"
        /\ \A w \in DOMAIN request.connection_states :
               request.connection_states[w] \in {"Connected", "Error"}

\* C36: a connection on which the peer answers the pings is never closed
\* by the supervisor's own health check, be it the first connection or one
\* made by reconnect(): while the latest ping sent on an open connection
\* has been answered, the health check does not send the close frame.
AnsweringPeerNotClosed ==
    [][\A e \in Sup :
          (conn_open[e] /\ pong_since_ping[e])
              => ~(~conn_open'[e] /\ last_close'[e] = "ping_timeout")]_vars

\* run() of e is in, or about to enter, its receive loop on an open
\* connection
ReadLoopRunning(e) == run_pc[e] \in {"spawned", "recv", "replay"} /\ conn_open[e]

\* C37: after a disconnect followed by a connect of the same exchange,
\* whenever the router reports the exchange Connected the read loop of its
\* supervisor is running on an open connection.
ConnectedAfterDisconnectIsRunning ==
    \A e \in Sup :
        (e \in RouterExchanges /\ closed[e] /\ is_running[e]
             /\ connection_states[e] = "Connected")
            => ReadLoopRunning(e)

\* C38: add_exchange for an exchange that is already installed does not
\* leave the supervisor of the replaced wrapper running: its connection
\* is closed, its read loop has ended and its ping task is gone.
ReplacedSupervisorShutDown ==
    \A e \in Sup :
        (e \in RouterExchanges /\ receiver_dropped[e] /\ ~removed[e])
            => /\ ~conn_open[e]
               /\ ~ping_running[e]
               /\ run_pc[e] \in {"idle", "stopped"}

\* C39: whenever the read loop of a supervisor has exited, because the
\* receiver was dropped, the reconnection failed or close() was called, no
\* ping task of that supervisor is running.
NoHeartbeatAfterLoopExit ==
    \A e \in Sup : run_pc[e] = "stopped" => ~ping_running[e]

\* C40: the uplink rate limit a supervisor was given at its first connect
\* is in force on every connection reconnect() makes, the replay of the
\* subscriptions included.
UplinkLimitSurvivesReconnect ==
    \A e \in Sup :
        (conn_open[e] /\ run_pc[e] \in {"replay", "recv"})
            => ConnectionUplinkLimit(e) = UPLINK_LIMIT(e)
====
